---- MODULE Spec2Model ----
(***************************************************************************)
(* Paired-strategy trader: the run handler (POST /api/run-now), the        *)
(* key-value layer with its Redis -> in-memory fallback, the run lock,     *)
(* the live-safety layer (daily caps, safety latch) and the per-signal     *)
(* execution ladder of runPairedStrategy.                                  *)
(*                                                                         *)
(* Money is counted in 1/10000 USD, prices in cents (0 < price < 100),     *)
(* divisions round down.  Time is counted in ticks of 60 seconds and is    *)
(* only kept as "ticks left" of each pending expiry.                       *)
(***************************************************************************)
EXTENDS Integers, Sequences, FiniteSets, TLC

\* ------------------------------------------------------------------ bounds
MaxRuns == 2
MaxSignals == 2
MaxRedisFailures == 1
MaxResets == 1
MaxClock == 16

Procs == {1, 2}
Conditions == {1, 2}
Timestamps == {1, 2}
\* The two outcome prices (cents) each market trades at
PricePairs == <<(<<48, 50>>), (<<30, 69>>)>>
\* ... and what else the second may trade at: the edge of the first
TiedPrices == <<49, 49>>
\* Price pairs with an outcome at 0 or at 1 USD
BadPricePairs == {<<0, 50>>, <<48, 100>>}

\* --------------------------------------------------------- program constants
LOCK_TTL_SECONDS == 120
MAX_DURATION_SECONDS == 60
REDIS_BACKOFF_SECONDS == 30
POLYMARKET_MIN_ORDER_USD == 1
DEFAULT_MAX_UNRESOLVED_IMBALANCES_PER_RUN == 1
MAX_LATCH_ASSETS == 20
LATCH_ALERT_COOLDOWN_SECONDS == 900
MARKET_CACHE_TTL_SECONDS == 60

Ticks(seconds) == (seconds + 59) \div 60
Usd(d) == d * 10000
Dimes(d) == d * 1000

Min(a, b) == IF a < b THEN a ELSE b
Max(a, b) == IF a > b THEN a ELSE b
Clamp(v, lo, hi) == Max(lo, Min(hi, v))
Range(s) == {s[i] : i \in 1..Len(s)}

VARIABLES
  kvs,               \* store -> [lock, state, config]: Redis and the memoryStore fallback
  backoffLeft,       \* ticks until redisBackoffUntil
  redisFailures,     \* Redis errors so far
  tokens,            \* lock tokens issued so far (randomUUID: never repeats)
  pc,                \* position of each handler invocation
  run,               \* locals of each handler invocation
  processedCount,    \* per signal key: how often it was marked processed
  env,               \* the deployment: PRIVATE_KEY set, who triggers and resets, what the feeds report
  obs,               \* per invocation: what it submitted to the exchange
  reset,             \* the manual reset request: its position, the state it read, resets done
  hist,              \* what has happened over all runs so far (observation only)
  marketCache        \* the handler instance's market cache: condition -> [age, market]

vars ==
  <<kvs, backoffLeft, redisFailures, tokens, pc, run, processedCount, env, obs, reset, hist,
    marketCache>>

\* ------------------------------------------------------------- data shapes
\* kv.ts:335-360 DEFAULT_CONFIG (fields the run handler reads)
DEFAULT_CONFIG ==
  [ mode |-> "off",
    walletUsagePercent |-> 25,
    pairChunkUsd |-> Usd(3),
    pairMinEdgeTenthCents |-> 5,
    pairMaxMarketsPerRun |-> 4,
    minBetUsd |-> Dimes(1),
    stopLossBalance |-> 0,
    floorToPolymarketMin |-> TRUE,
    maxUnresolvedImbalancesPerRun |-> 1,
    maxDailyLiveNotionalUsd |-> 0,
    maxDailyDrawdownUsd |-> 0 ]

\* The configurations a behaviour may be started with (saved through setConfig).
Configs ==
  { DEFAULT_CONFIG,
    [DEFAULT_CONFIG EXCEPT !.mode = "paper"],
    [DEFAULT_CONFIG EXCEPT !.mode = "live"],
    [DEFAULT_CONFIG EXCEPT !.mode = "live",
                           !.maxUnresolvedImbalancesPerRun = 2,
                           !.maxDailyLiveNotionalUsd = Usd(2),
                           !.maxDailyDrawdownUsd = Usd(10)] }

\* More of what an operator may save: one market per run, a stop-loss floor of
\* 50 USD, legs below the exchange minimum not raised
WideConfigs ==
  Configs \cup
  { [DEFAULT_CONFIG EXCEPT !.mode = "live", !.pairMaxMarketsPerRun = 1],
    [DEFAULT_CONFIG EXCEPT !.mode = "live", !.stopLossBalance = Usd(50)],
    [DEFAULT_CONFIG EXCEPT !.mode = "live", !.floorToPolymarketMin = FALSE] }

\* Paper trading, and live trading under daily caps
TapeConfigs == {c \in Configs : c.mode = "paper" \/ c.maxDailyLiveNotionalUsd > 0}

\* Balances the account-snapshot query may report.
Balances == {Usd(0), Usd(20), Usd(100)}
WideBalances == Balances \cup {Usd(5)}
NarrowBalances == {Usd(0), Usd(100)}

\* kv.ts:230-238 SafetyLatchState; present = FALSE is "undefined"
NoLatch ==
  [present |-> FALSE, active |-> FALSE, unresolvedAssets |-> <<>>, attempts |-> 0,
   lastAlertAt |-> -1]

\* kv.ts:240-248 DailyRiskState; present = FALSE is "undefined"
NoDailyRisk ==
  [ present |-> FALSE, dayKey |-> "", dayStartBalanceUsd |-> 0, liveNotionalUsd |-> 0,
    liveRuns |-> 0, alertedNotionalCap |-> FALSE, alertedDrawdownCap |-> FALSE ]

\* kv.ts:250-262 CopyTraderState, and the value getState returns for a missing key
EmptyState ==
  [lastTimestamp |-> 0, copiedKeys |-> {}, safetyLatch |-> NoLatch, dailyRisk |-> NoDailyRisk]

NoLock == [token |-> 0, ttl |-> 0]

\* A paired signal: condition, latest trade timestamp, the two outcomes' prices
\* (cents) and token ids, pairSum and edge (cents) as the builder computed them.
SignalKey(sig) == <<sig.c, sig.ts>>
SignalKeys == Conditions \X Timestamps
AssetA(sig) == sig.assetA
AssetB(sig) == sig.assetB
PairSum(sig) == sig.pairSum
EdgeCents(sig) == sig.edge

\* ------------------------------------------------------ live-safety helpers
\* live-safety utcDayKey: one UTC day per behaviour
UtcDayKey == "day1"

\* live-safety initDailyRiskState
InitDailyRiskState(current, cashBalance) ==
  IF ~current.present \/ current.dayKey # UtcDayKey
    THEN [ present |-> TRUE, dayKey |-> UtcDayKey,
           dayStartBalanceUsd |-> Max(0, cashBalance),
           liveNotionalUsd |-> 0, liveRuns |-> 0,
           alertedNotionalCap |-> FALSE, alertedDrawdownCap |-> FALSE ]
    ELSE current

\* live-safety applyDailyLiveRun
ApplyDailyLiveRun(dailyRisk, budgetUsedUsd) ==
  [dailyRisk EXCEPT !.liveNotionalUsd = Max(0, @ + Max(0, budgetUsedUsd)),
                    !.liveRuns = @ + 1]

\* Variant: a cap of 0 is a cap like any other
EvaluateDailyRiskCapsZeroIsCap(dailyRisk, cashBalance, maxNotional, maxDrawdown) ==
  LET drawdownUsd == Max(0, dailyRisk.dayStartBalanceUsd - Max(0, cashBalance)) IN
  IF dailyRisk.liveNotionalUsd >= maxNotional
    THEN [ blocked |-> TRUE, reason |-> "daily_notional_cap",
           shouldAlert |-> ~dailyRisk.alertedNotionalCap,
           dailyRisk |-> [dailyRisk EXCEPT !.alertedNotionalCap = TRUE] ]
  ELSE IF drawdownUsd >= maxDrawdown
    THEN [ blocked |-> TRUE, reason |-> "daily_drawdown_cap",
           shouldAlert |-> ~dailyRisk.alertedDrawdownCap,
           dailyRisk |-> [dailyRisk EXCEPT !.alertedDrawdownCap = TRUE] ]
  ELSE [ blocked |-> FALSE, reason |-> "", shouldAlert |-> FALSE, dailyRisk |-> dailyRisk ]

\* live-safety evaluateDailyRiskCaps
EvaluateDailyRiskCaps(dailyRisk, cashBalance, maxNotional, maxDrawdown) ==
  LET drawdownUsd == Max(0, dailyRisk.dayStartBalanceUsd - Max(0, cashBalance)) IN
  IF maxNotional > 0 /\ dailyRisk.liveNotionalUsd >= maxNotional
    THEN [ blocked |-> TRUE, reason |-> "daily_notional_cap",
           shouldAlert |-> ~dailyRisk.alertedNotionalCap,
           dailyRisk |-> [dailyRisk EXCEPT !.alertedNotionalCap = TRUE] ]
  ELSE IF maxDrawdown > 0 /\ drawdownUsd >= maxDrawdown
    THEN [ blocked |-> TRUE, reason |-> "daily_drawdown_cap",
           shouldAlert |-> ~dailyRisk.alertedDrawdownCap,
           dailyRisk |-> [dailyRisk EXCEPT !.alertedDrawdownCap = TRUE] ]
  ELSE [ blocked |-> FALSE, reason |-> "", shouldAlert |-> FALSE, dailyRisk |-> dailyRisk ]

\* kv.ts normalizeSafetyLatch: at most 20 assets are read back
NormalizeSafetyLatch(l) ==
  IF ~l.present THEN NoLatch
  ELSE [l EXCEPT !.unresolvedAssets = SubSeq(@, 1, Min(Len(@), MAX_LATCH_ASSETS))]

\* --------------------------------------------------------- signal builder
\* What getMarket answers for a condition: a market with two tokens, a market whose
\* two tokens carry one id, or a throw
Markets == {"ok", "dup", "failed"}

\* What the trade tape and the market endpoint hold for one condition: the latest
\* trade's timestamp, the price (cents) resolved for each of the two outcomes
\* (snapshot?.price ?? toNum(token.price)), and the market lookup's answer
Snapshot(c, ts, prices, market) ==
  [c |-> c, ts |-> ts, pA |-> prices[1], pB |-> prices[2], market |-> market]
CleanSnapshot(c, ts) == Snapshot(c, ts, PricePairs[c], "ok")

\* grouped: at most MaxSignals conditions, each once, in the order the tape has them
TapesOver(snaps) ==
  { l \in UNION {[1..n -> snaps] : n \in 0..MaxSignals} :
      \A i, j \in 1..Len(l) : i < j => l[i].c # l[j].c }

\* A busy tape of tradeable markets
CleanTapes == TapesOver({CleanSnapshot(c, ts) : c \in Conditions, ts \in Timestamps})

\* A quiet tape: at most the one market, traded once
NarrowTapes == {<<>>, <<CleanSnapshot(1, 1)>>}

\* A tape as met in the wild: two markets may show the same edge; in the latest
\* trades an outcome's price may be 0 or 1 USD, a lookup may throw, a market may
\* list one token twice
WildSnapshots ==
  {CleanSnapshot(c, ts) : c \in Conditions, ts \in Timestamps}
  \cup {Snapshot(2, ts, TiedPrices, "ok") : ts \in Timestamps}
  \cup {Snapshot(c, 2, prices, "ok") : c \in Conditions, prices \in BadPricePairs}
  \cup {Snapshot(c, 2, PricePairs[c], m) : c \in Conditions, m \in {"dup", "failed"}}
WildTapes == TapesOver(WildSnapshots)

\* marketCache: nothing stored for a condition. age counts the minutes since the
\* entry was stored, -1 for none.
NoMarket == [age |-> -1, market |-> "none"]

\* 60 seconds pass: a stored entry is a minute older, up to the age at which it
\* is no longer served
AgeEntry(entry) ==
  IF entry.age >= 0 /\ entry.age * 60 < MARKET_CACHE_TTL_SECONDS
    THEN [entry EXCEPT !.age = @ + 1] ELSE entry

\* Variant: a stored entry is never served
CacheFreshNever(entry) == FALSE

\* cached && now - cached.fetchedAt < MARKET_CACHE_TTL_MS
CacheFresh(entry) == entry.age >= 0 /\ entry.age * 60 < MARKET_CACHE_TTL_SECONDS

\* getMarketCached: the stored market while fresh, else the endpoint's answer
GetMarketCached(cache, snap) ==
  IF CacheFresh(cache[snap.c]) THEN cache[snap.c].market ELSE snap.market

\* getMarketCached: every condition looked up is stored, a throw as "failed"
CacheAfter(cache, tape) ==
  [c \in Conditions |->
     IF \E i \in 1..Len(tape) : tape[i].c = c /\ ~CacheFresh(cache[c])
       THEN [age |-> 0, market |-> (CHOOSE s \in Range(tape) : s.c = c).market]
       ELSE cache[c]]

\* Array.prototype.sort with a consistent comparator: stable; cmp[i, j] is the
\* comparator on s[i], s[j], negative when s[i] goes first
StableSort(s, cmp) ==
  LET Rank(i) == Cardinality({j \in 1..Len(s) :
                                cmp[j, i] < 0 \/ (cmp[i, j] >= 0 /\ j < i)})
  IN [k \in 1..Len(s) |-> s[CHOOSE i \in 1..Len(s) : Rank(i) = k - 1]]

\* (a, b) => b[1].latestTimestamp - a[1].latestTimestamp
CompareRecency(a, b) == b.ts - a.ts

\* Variant: signals are ordered by recency alone
CompareSignalsByRecency(a, b) == b.ts - a.ts

\* (a, b) => b.edge !== a.edge ? b.edge - a.edge : b.latestTimestamp - a.latestTimestamp
CompareSignals(a, b) == IF b.edge # a.edge THEN b.edge - a.edge ELSE b.ts - a.ts

\* Variant: a price of 1 USD passes
InvalidPriceUpToOne(price) == price <= 0 \/ price > 100

\* price <= 0 || price >= 1
InvalidPrice(price) == price <= 0 \/ price >= 100

\* market.tokens' ids
TokenIds(c, market) == IF market = "dup" THEN <<2 * c - 1, 2 * c - 1>> ELSE <<2 * c - 1, 2 * c>>

\* getRecentPairSignals: what becomes of one condition: a rejection reason, or
\* "signal"
Diagnose(cache, snap) ==
  LET market == GetMarketCached(cache, snap)
      ids == TokenIds(snap.c, market)
  IN
  IF market = "failed" THEN "market_lookup_failed"
  ELSE IF InvalidPrice(snap.pA) \/ InvalidPrice(snap.pB) THEN "missing_valid_token_snapshot"
  ELSE IF ids[1] = ids[2] THEN "duplicate_token_assets"
  ELSE "signal"

\* signals.push({ conditionId, latestTimestamp, pairSum, edge, outcomes })
MakeSignal(cache, snap) ==
  LET ids == TokenIds(snap.c, GetMarketCached(cache, snap)) IN
  [ c |-> snap.c, ts |-> snap.ts, pA |-> snap.pA, pB |-> snap.pB,
    assetA |-> ids[1], assetB |-> ids[2],
    pairSum |-> snap.pA + snap.pB, edge |-> 100 - (snap.pA + snap.pB) ]

\* getRecentPairSignals: conditions by recency, one signal for each that passes,
\* sorted; the rejection of each that does not; the markets looked up
GetRecentPairSignals(cache, tape) ==
  LET conditionIds ==
        StableSort(tape, [i, j \in 1..Len(tape) |-> CompareRecency(tape[i], tape[j])])
      passed == SelectSeq(conditionIds, LAMBDA s : Diagnose(cache, s) = "signal")
      pushed == [i \in 1..Len(passed) |-> MakeSignal(cache, passed[i])]
  IN
  [ signals |->
      StableSort(pushed, [i, j \in 1..Len(pushed) |-> CompareSignals(pushed[i], pushed[j])]),
    diagnostics |-> [c \in Conditions |->
                       IF \E s \in Range(tape) : s.c = c
                         THEN Diagnose(cache, CHOOSE s \in Range(tape) : s.c = c)
                         ELSE ""],
    lookups |-> {c \in Conditions : \E s \in Range(tape) : s.c = c /\ ~CacheFresh(cache[c])} ]

\* ------------------------------------------------------- budget allocator
\* Number(x) || d: d when x is 0
OrDefault(x, d) == IF x = 0 THEN d ELSE x

WalletUsagePercent(cfg) == Clamp(OrDefault(cfg.walletUsagePercent, 100), 1, 100)
RunBudgetCapUsd(cashBalance, cfg) == (cashBalance * WalletUsagePercent(cfg)) \div 100
\* Variant: the configured number of markets is not read
MaxMarketsPerRunDefault(cfg) == Clamp(OrDefault(0, 4), 1, 20)

\* const maxMarketsPerRun = Math.max(1, Math.min(20, Number(config.pairMaxMarketsPerRun) || 4))
MaxMarketsPerRun(cfg) == Clamp(OrDefault(cfg.pairMaxMarketsPerRun, 4), 1, 20)
PairChunkUsd(cfg) == Max(Usd(1), OrDefault(cfg.pairChunkUsd, Usd(3)))
MinLegUsd(cfg) == Max(Dimes(1), OrDefault(cfg.minBetUsd, Dimes(1)))
MaxUnresolvedImbalancesPerRun(cfg) ==
  Clamp(OrDefault(cfg.maxUnresolvedImbalancesPerRun,
                  DEFAULT_MAX_UNRESOLVED_IMBALANCES_PER_RUN), 1, 10)

\* Variant: the floored pair is never re-checked against the remaining budget
ExceedsRemainingUnchecked(pairSpend, remainingBudgetUsd) == FALSE

\* The pair no longer fits: runPairedStrategy's re-check after the legs were floored
ExceedsRemaining(pairSpend, remainingBudgetUsd) == pairSpend > remainingBudgetUsd

\* Variant: legs below the exchange minimum are left as they are
PairSizingUnfloored(mode, cfg, remainingBudgetUsd, sig) ==
  LET pairSpend == Min(PairChunkUsd(cfg), remainingBudgetUsd)
      legA == (pairSpend * sig.pA) \div PairSum(sig)
      legB == (pairSpend * sig.pB) \div PairSum(sig)
      out(reason) == [reason |-> reason, legA |-> legA, legB |-> legB]
  IN
  IF pairSpend <= 0 THEN out("pair_spend_non_positive")
  ELSE IF legA < MinLegUsd(cfg) \/ legB < MinLegUsd(cfg) THEN out("leg_below_min_bet")
  ELSE IF mode = "live" /\ ExceedsRemaining(legA + legB, remainingBudgetUsd)
    THEN out("pair_exceeds_remaining_budget")
  ELSE out("admit")

\* runPairedStrategy: sizing of one signal (pairSpend, leg sizes, minimums)
PairSizing(mode, cfg, remainingBudgetUsd, sig) ==
  LET pairSpend == Min(PairChunkUsd(cfg), remainingBudgetUsd)
      legA0 == (pairSpend * sig.pA) \div PairSum(sig)
      legB0 == (pairSpend * sig.pB) \div PairSum(sig)
      minOrder == Usd(POLYMARKET_MIN_ORDER_USD)
      below == legA0 < minOrder \/ legB0 < minOrder
      legA == IF mode = "live" /\ below THEN Max(minOrder, legA0) ELSE legA0
      legB == IF mode = "live" /\ below THEN Max(minOrder, legB0) ELSE legB0
      out(reason) == [reason |-> reason, legA |-> legA, legB |-> legB]
  IN
  IF pairSpend <= 0 THEN out("pair_spend_non_positive")
  ELSE IF legA0 < MinLegUsd(cfg) \/ legB0 < MinLegUsd(cfg) THEN out("leg_below_min_bet")
  ELSE IF mode = "live" /\ below /\ ~cfg.floorToPolymarketMin
    THEN out("leg_below_polymarket_min_no_floor")
  ELSE IF mode = "live" /\ ExceedsRemaining(legA + legB, remainingBudgetUsd)
    THEN out("pair_exceeds_remaining_budget")
  ELSE out("admit")

\* Variant: the watermark is not consulted
SignalNotNewNever(sig, st) == FALSE

\* signal.latestTimestamp <= state.lastTimestamp: at or below the loaded watermark
SignalNotNew(sig, st) == sig.ts <= st.lastTimestamp

\* runPairedStrategy: the checks at the head of the signal loop, in the code's order
Evaluate(r, sig) ==
  LET mode == r.cfg.mode
      sizing == PairSizing(mode, r.cfg, r.remaining, sig)
      out(kind, reason) ==
        [kind |-> kind, reason |-> reason, legA |-> sizing.legA, legB |-> sizing.legB]
  IN
  IF r.eligible >= MaxMarketsPerRun(r.cfg) THEN out("break", "max_markets_per_run_reached")
  ELSE IF r.remaining < (IF mode = "live" THEN Usd(2) ELSE Dimes(2))
    THEN out("break", "insufficient_remaining_budget")
  ELSE IF EdgeCents(sig) * 10 < Clamp(r.cfg.pairMinEdgeTenthCents, 0, 500)
    THEN out("reject", "edge_below_threshold")
  ELSE IF SignalNotNew(sig, r.st) THEN out("reject", "signal_not_new")
  ELSE IF SignalKey(sig) \in r.copiedSet THEN out("reject", "already_processed_signal")
  ELSE IF PairSum(sig) <= 0 \/ PairSum(sig) >= 200 THEN out("reject", "invalid_pair_sum")
  ELSE IF sizing.reason # "admit" THEN out("reject", sizing.reason)
  ELSE out("admit", "")

\* ------------------------------------------------- execution state machine
Order(leg, side, ok) == [leg |-> leg, side |-> side, ok |-> ok]

\* Variant: leg B is submitted whatever became of leg A
LadderIgnoringLegA(a, b, r, u) ==
  IF b THEN <<Order("A", "BUY", a), Order("B", "BUY", TRUE)>>
  ELSE IF r THEN <<Order("A", "BUY", a), Order("B", "BUY", FALSE), Order("B", "BUY", TRUE)>>
  ELSE <<Order("A", "BUY", a), Order("B", "BUY", FALSE), Order("B", "BUY", FALSE),
         Order("A", "SELL", u)>>

\* runPairedStrategy: the orders submitted for one admitted live signal, given how
\* the exchange answers leg A, leg B, the leg B retry and the unwind sell
Ladder(a, b, r, u) ==
  IF ~a THEN <<Order("A", "BUY", FALSE)>>
  ELSE IF b THEN <<Order("A", "BUY", TRUE), Order("B", "BUY", TRUE)>>
  ELSE IF r THEN <<Order("A", "BUY", TRUE), Order("B", "BUY", FALSE), Order("B", "BUY", TRUE)>>
  ELSE <<Order("A", "BUY", TRUE), Order("B", "BUY", FALSE), Order("B", "BUY", FALSE),
         Order("A", "SELL", u)>>

Last(s) == s[Len(s)]

\* The per-signal outcome the ladder ends in
Outcome(ladder) ==
  IF ~ladder[1].ok THEN "leg_a_rejected"
  ELSE IF Len(ladder) = 2 THEN "both_filled"
  ELSE IF Len(ladder) = 3 THEN "recovered"
  ELSE IF Last(ladder).ok THEN "unwound"
  ELSE "unresolved"

\* Variant: the breaker trips one failure late
CircuitBreakerTrippedLate(unresolvedImbalances, cfg) ==
  unresolvedImbalances > MaxUnresolvedImbalancesPerRun(cfg)

\* Variant: the first unresolved imbalance trips the breaker whatever the cap
CircuitBreakerTrippedOnFirst(unresolvedImbalances, cfg) == unresolvedImbalances >= 1

\* runPairedStrategy: the circuit-breaker test after an unwind failed
CircuitBreakerTripped(unresolvedImbalances, cfg) ==
  unresolvedImbalances >= MaxUnresolvedImbalancesPerRun(cfg)

\* runPairedStrategy: the paper branch and recordLivePair (same bookkeeping)
RecordPair(r, sig, legA, legB) ==
  [r EXCEPT !.copiedSet = @ \cup {SignalKey(sig)},
            !.copied = @ + 1,
            !.paper = IF r.cfg.mode = "paper" THEN @ + 1 ELSE @,
            !.remaining = Max(0, @ - (legA + legB)),
            !.lastTs = Max(@, sig.ts),
            !.idx = @ + 1]

\* Variant: the token of a failed unwind is not recorded
PushExposureDropped(assets, asset) == assets

\* unresolvedExposureAssets.push unless already included
PushExposure(assets, asset) ==
  IF asset \in Range(assets) THEN assets ELSE Append(assets, asset)

\* Variant: a successful unwind is booked like a failed one
AfterLadderUnwoundAsUnresolved(r, sig, legA, legB, ladder) ==
  LET o == Outcome(ladder) IN
  IF o = "leg_a_rejected" THEN [r EXCEPT !.failed = @ + 1, !.idx = @ + 1]
  ELSE IF o \in {"both_filled", "recovered"} THEN RecordPair(r, sig, legA, legB)
  ELSE [r EXCEPT !.unresolved = @ + 1,
                 !.failed = @ + 1,
                 !.exposure = PushExposure(@, AssetA(sig)),
                 !.tripped = CircuitBreakerTripped(r.unresolved + 1, r.cfg),
                 !.idx = @ + 1]

\* Variant: an unwound pair is counted neither as copied nor as failed
AfterLadderUnwoundUncounted(r, sig, legA, legB, ladder) ==
  LET o == Outcome(ladder) IN
  IF o = "leg_a_rejected" THEN [r EXCEPT !.failed = @ + 1, !.idx = @ + 1]
  ELSE IF o \in {"both_filled", "recovered"} THEN RecordPair(r, sig, legA, legB)
  ELSE IF o = "unwound" THEN [r EXCEPT !.idx = @ + 1]
  ELSE [r EXCEPT !.unresolved = @ + 1,
                 !.failed = @ + 1,
                 !.exposure = PushExposure(@, AssetA(sig)),
                 !.tripped = CircuitBreakerTripped(r.unresolved + 1, r.cfg),
                 !.idx = @ + 1]

\* Variant: an unwound pair is charged to the budget
AfterLadderDebitsUnwound(r, sig, legA, legB, ladder) ==
  LET o == Outcome(ladder) IN
  IF o = "leg_a_rejected" THEN [r EXCEPT !.failed = @ + 1, !.idx = @ + 1]
  ELSE IF o \in {"both_filled", "recovered"} THEN RecordPair(r, sig, legA, legB)
  ELSE IF o = "unwound"
    THEN [r EXCEPT !.failed = @ + 1, !.idx = @ + 1, !.remaining = Max(0, @ - (legA + legB))]
  ELSE [r EXCEPT !.unresolved = @ + 1,
                 !.failed = @ + 1,
                 !.exposure = PushExposure(@, AssetA(sig)),
                 !.tripped = CircuitBreakerTripped(r.unresolved + 1, r.cfg),
                 !.idx = @ + 1]

\* runPairedStrategy: bookkeeping after the ladder of one admitted live signal
AfterLadder(r, sig, legA, legB, ladder) ==
  LET o == Outcome(ladder) IN
  IF o = "leg_a_rejected" THEN [r EXCEPT !.failed = @ + 1, !.idx = @ + 1]
  ELSE IF o \in {"both_filled", "recovered"} THEN RecordPair(r, sig, legA, legB)
  ELSE IF o = "unwound" THEN [r EXCEPT !.failed = @ + 1, !.idx = @ + 1]
  ELSE [r EXCEPT !.unresolved = @ + 1,
                 !.failed = @ + 1,
                 !.exposure = PushExposure(@, AssetA(sig)),
                 !.tripped = CircuitBreakerTripped(r.unresolved + 1, r.cfg),
                 !.idx = @ + 1]

\* ---------------------------------------------------------------- kv layer
Stores == {"redis", "memory"}

\* A Redis command may throw while no backoff is pending (handleRedisFailure)
FailChoices ==
  IF env.redisMayFail /\ backoffLeft = 0 /\ redisFailures < MaxRedisFailures
    THEN {FALSE, TRUE} ELSE {FALSE}

\* kv.get / kv.set / kv.del: Redis, or memoryStore when getRedis() returns null
\* (backoff pending) or the command threw
Target(fail) == IF fail \/ backoffLeft > 0 THEN "memory" ELSE "redis"

\* handleRedisFailure: redisBackoffUntil = Date.now() + 30_000
KvDone(fail) ==
  /\ backoffLeft' = IF fail THEN Ticks(REDIS_BACKOFF_SECONDS) ELSE backoffLeft
  /\ redisFailures' = IF fail THEN redisFailures + 1 ELSE redisFailures

\* kv.set(key, value, {nx, ex}): "OK" unless the key is present
SetNxEx(lock, token, ttlSeconds) ==
  IF lock.token # 0
    THEN [ok |-> FALSE, lock |-> lock]
    ELSE [ok |-> TRUE, lock |-> [token |-> token, ttl |-> Max(1, Ticks(ttlSeconds))]]

\* getConfig: the stored configuration, DEFAULT_CONFIG when the key is missing
GetConfig(store) == IF store.hasConfig THEN store.config ELSE DEFAULT_CONFIG

\* getState: the stored state with its latch normalised
GetState(store) == [store.state EXCEPT !.safetyLatch = NormalizeSafetyLatch(@)]

\* setState: { ...current, ...state } for the keys each caller passes
MergeState(current, kind, patch) ==
  CASE kind = "mode_off" -> current
    [] kind = "cap" -> [current EXCEPT !.dailyRisk = patch.dailyRisk]
    [] kind = "latch" ->
         [current EXCEPT !.safetyLatch = patch.safetyLatch, !.dailyRisk = patch.dailyRisk]
    [] OTHER -> patch

\* ------------------------------------------------------------ initial state
IdleRun ==
  [ token |-> 0, cfg |-> DEFAULT_CONFIG, st |-> EmptyState, dailyRisk |-> NoDailyRisk,
    reason |-> "", signals |-> <<>>, idx |-> 0, cashBalance |-> 0, cap |-> 0, remaining |-> 0, lastTs |-> 0,
    copiedSet |-> {}, unresolved |-> 0, exposure |-> <<>>, copied |-> 0, failed |-> 0,
    paper |-> 0, eligible |-> 0, tripped |-> FALSE, errored |-> FALSE,
    patchKind |-> "none", patch |-> EmptyState, cur |-> EmptyState, response |-> "none",
    shouldAlert |-> FALSE ]

IdleObs ==
  [ bought |-> FALSE, ladder |-> <<>>, spent |-> 0, unwindFailed |-> <<>>,
    unresolvedKeys |-> {}, latchAtLoad |-> FALSE, resetAfterLoad |-> FALSE,
    liveCashBalance |-> 0, balanceThrew |-> FALSE, diagnosticsRecorded |-> FALSE,
    sessions |-> 0,
    diagnostics |-> [c \in Conditions |-> ""],   \* what the builder made of each condition
    lookups |-> {} ]                             \* conditions it called getMarket for

IdleReset == [ pc |-> "idle", cur |-> EmptyState, count |-> 0 ]

\* Nothing has happened yet
CapReasons == {"daily_notional_cap", "daily_drawdown_cap"}
NoHist ==
  [ legAFailed |-> {},                         \* keys whose leg A order failed
    capBlocks |-> [c \in CapReasons |-> 0],    \* runs skipped for each daily cap
    capAlerts |-> [c \in CapReasons |-> 0],   \* alerts sent for each daily cap
    clock |-> -1,            \* minutes since the first latch notification (-1: none yet)
    latchNotes |-> 0,        \* notifications about the latch since the last reset
    lastLatchNote |-> -1 ]   \* when the last of them was sent

\* What the feeds of a deployment can report
BalancesOf(e) == IF e.wide THEN WideBalances ELSE IF e.rich THEN Balances ELSE NarrowBalances
ConfigsOf(e) == IF e.wide THEN WideConfigs ELSE IF e.wildTape THEN TapeConfigs ELSE Configs
TapesOf(e) == IF e.wildTape THEN WildTapes ELSE IF e.rich THEN CleanTapes ELSE NarrowTapes

\* What the last live run of the day before left behind: 3 USD traded from a
\* balance of 100 USD, the notional cap reached and alerted
YesterdaysRisk ==
  [ present |-> TRUE, dayKey |-> "day0", dayStartBalanceUsd |-> Usd(100),
    liveNotionalUsd |-> Usd(3), liveRuns |-> 1,
    alertedNotionalCap |-> TRUE, alertedDrawdownCap |-> FALSE ]

\* The run state a behaviour starts from: empty, or, with daily caps configured,
\* what a live run that found no signal left behind earlier the same day (balance
\* 100 USD, nothing traded), or what the day before left behind
StartStates(e, c) ==
  {EmptyState} \cup
  IF e.midDay /\ c.mode = "live" /\ c.maxDailyDrawdownUsd > 0
    THEN {[EmptyState EXCEPT !.dailyRisk =
             ApplyDailyLiveRun(InitDailyRiskState(NoDailyRisk, Usd(100)), 0)],
          [EmptyState EXCEPT !.dailyRisk = YesterdaysRisk]}
    ELSE {}

\* The state after deployment: empty stores but for the saved configuration
InitWith(e) ==
  /\ env = e
  /\ \E c \in ConfigsOf(e) : \E st \in StartStates(e, c) :
       /\ ~e.privateKey => c.mode = "live"
       /\ kvs = [s \in Stores |->
                   [ lock |-> NoLock, state |-> IF s = "redis" THEN st ELSE EmptyState,
                     hasConfig |-> (s = "redis"),
                     config |-> IF s = "redis" THEN c ELSE DEFAULT_CONFIG ]]
  /\ backoffLeft = 0
  /\ redisFailures = 0
  /\ tokens = 0
  /\ pc = [p \in Procs |-> "idle"]
  /\ run = [p \in Procs |-> IdleRun]
  /\ processedCount = [k \in SignalKeys |-> 0]
  /\ obs = [p \in Procs |-> IdleObs]
  /\ reset = IdleReset
  /\ hist = NoHist
  /\ marketCache = [c \in Conditions |-> NoMarket]

\* Worker and manual trigger side by side, Redis commands may throw, a quiet tape
Init ==
  \E key \in BOOLEAN :
    InitWith([privateKey |-> key, procs |-> Procs, redisMayFail |-> TRUE, rich |-> FALSE,
              resetAnytime |-> FALSE, midDay |-> FALSE, alertClock |-> FALSE,
              sinkMayHang |-> FALSE, wide |-> FALSE, wildTape |-> FALSE])

\* One trigger source, Redis healthy, a busy tape
InitWorker ==
  \E key \in BOOLEAN :
    InitWith([privateKey |-> key, procs |-> {1}, redisMayFail |-> FALSE, rich |-> TRUE,
              resetAnytime |-> FALSE, midDay |-> FALSE, alertClock |-> FALSE,
              sinkMayHang |-> FALSE, wide |-> FALSE, wildTape |-> FALSE])

\* One trigger source, Redis healthy, a busy tape, and more of the configurations
\* and balances a deployment may see
InitSizing ==
  InitWith([privateKey |-> TRUE, procs |-> {1}, redisMayFail |-> FALSE, rich |-> TRUE,
            resetAnytime |-> FALSE, midDay |-> FALSE, alertClock |-> FALSE,
            sinkMayHang |-> FALSE, wide |-> TRUE, wildTape |-> FALSE])

\* One trigger source, Redis healthy, 100 USD in the account, and the tape and the
\* market endpoint as met in the wild
InitTape ==
  InitWith([privateKey |-> TRUE, procs |-> {1}, redisMayFail |-> FALSE, rich |-> FALSE,
            resetAnytime |-> FALSE, midDay |-> FALSE, alertClock |-> FALSE,
            sinkMayHang |-> FALSE, wide |-> FALSE, wildTape |-> TRUE])

\* One trigger source, Redis healthy, a quiet tape, a start later in the day, and an
\* operator who resets the sync state without stopping the worker first
InitOperator ==
  \E key \in BOOLEAN :
    InitWith([privateKey |-> key, procs |-> {1}, redisMayFail |-> FALSE, rich |-> FALSE,
              resetAnytime |-> TRUE, midDay |-> TRUE, alertClock |-> TRUE,
              sinkMayHang |-> TRUE, wide |-> FALSE, wildTape |-> FALSE])

\* ------------------------------------------------------------------- time
\* Variant: a lock key never expires
AgeLockForever(lock) == lock

\* 60 seconds pass: every pending expiry comes one tick closer; an expired lock
\* key is gone (Redis EX; ensureMemoryFresh for memoryStore)
AgeLock(lock) ==
  IF lock.token = 0 THEN lock
  ELSE IF lock.ttl <= 1 THEN NoLock
  ELSE [lock EXCEPT !.ttl = @ - 1]

\* export const maxDuration: the host ends an invocation after 60 seconds, so a
\* handler that is still running holds a key set at most that long ago
WithinMaxDuration(p) ==
  \A s \in Stores :
    kvs[s].lock.token = run[p].token =>
      Ticks(LOCK_TTL_SECONDS) - (kvs[s].lock.ttl - 1) <= Ticks(MAX_DURATION_SECONDS)

\* Date.now() as the latch alerts see it: minutes since the first latch
\* notification. The clock is followed where env.alertClock says so, and up to
\* MaxClock minutes.
Now == hist.clock
ClockRuns == env.alertClock /\ hist.clock >= 0 /\ hist.clock < MaxClock

Tick ==
  /\ \/ backoffLeft > 0
     \/ \E s \in Stores : kvs[s].lock.token # 0
     \/ ClockRuns /\ tokens < MaxRuns
     \/ \E c \in Conditions : CacheFresh(marketCache[c])
  /\ \A p \in Procs : pc[p] # "idle" => WithinMaxDuration(p)
  /\ backoffLeft' = Max(0, backoffLeft - 1)
  /\ kvs' = [s \in Stores |-> [kvs[s] EXCEPT !.lock = AgeLock(@)]]
  /\ hist' = [hist EXCEPT !.clock = IF ClockRuns THEN @ + 1 ELSE @]
  /\ marketCache' = [c \in Conditions |-> AgeEntry(marketCache[c])]
  /\ UNCHANGED <<redisFailures, tokens, pc, run, processedCount, env, reset, obs>>

\* Unless the operator resets at any time, the worker is stopped before a reset and
\* stays stopped: no run is executing when the reset starts, none is triggered after
WorkerStopped == \A p \in Procs : pc[p] = "idle"
WorkerMayRun == env.resetAnytime \/ (reset.pc = "idle" /\ reset.count = 0)

\* ------------------------------------------------------------ run handler
\* POST: acquireRunLock(120); "busy" when the key is held
Trigger(p) ==
  /\ p \in env.procs
  /\ pc[p] = "idle"
  /\ WorkerMayRun
  /\ tokens < MaxRuns
  /\ \E fail \in FailChoices :
       LET t == Target(fail)
           res == SetNxEx(kvs[t].lock, tokens + 1, LOCK_TTL_SECONDS) IN
       /\ KvDone(fail)
       /\ kvs' = [kvs EXCEPT ![t].lock = res.lock]
       /\ IF res.ok
            THEN /\ tokens' = tokens + 1
                 /\ pc' = [pc EXCEPT ![p] = "getConfig"]
                 /\ run' = [run EXCEPT ![p] = [IdleRun EXCEPT !.token = tokens + 1]]
                 /\ obs' = [obs EXCEPT ![p] = IdleObs]
            ELSE UNCHANGED <<tokens, pc, run, obs>>
  /\ UNCHANGED <<processedCount, env, marketCache, hist, reset>>

\* getConfig, then the mode-off and missing-key exits
LoadConfig(p) ==
  /\ pc[p] = "getConfig"
  /\ \E fail \in FailChoices :
       LET cfg == GetConfig(kvs[Target(fail)]) IN
       /\ KvDone(fail)
       /\ IF cfg.mode = "off"
            THEN /\ run' = [run EXCEPT ![p].cfg = cfg, ![p].patchKind = "mode_off"]
                 /\ pc' = [pc EXCEPT ![p] = "setRead"]
          ELSE IF cfg.mode = "live" /\ ~env.privateKey
            THEN /\ run' = [run EXCEPT ![p].cfg = cfg, ![p].response = "error_private_key"]
                 /\ pc' = [pc EXCEPT ![p] = "releaseGet"]
          ELSE /\ run' = [run EXCEPT ![p].cfg = cfg]
               /\ pc' = [pc EXCEPT ![p] = "getState"]
  /\ UNCHANGED <<kvs, tokens, processedCount, env, marketCache, hist, reset, obs>>

\* getState, and for a live run the balance query (0 when it fails), the daily
\* risk state and the two pre-run gates
LoadedRun(r, st) == [r EXCEPT !.st = st, !.lastTs = st.lastTimestamp, !.copiedSet = st.copiedKeys]

\* Paper mode: no gate
LoadStatePaper(p) ==
  /\ pc[p] = "getState"
  /\ run[p].cfg.mode = "paper"
  /\ \E fail \in FailChoices :
       /\ KvDone(fail)
       /\ run' = [run EXCEPT ![p] = LoadedRun(@, GetState(kvs[Target(fail)]))]
  /\ pc' = [pc EXCEPT ![p] = "strategy"]
  /\ UNCHANGED <<kvs, tokens, processedCount, env, marketCache, hist, reset, obs>>

\* getCashBalance(MY_ADDRESS).catch(() => 0): a query that threw reads as balance 0
CaughtAsZero(threw, bal) == threw => bal = 0

\* What the live preflight computes from the loaded state and the balance
DailyCheck(cfg, st, bal) ==
  EvaluateDailyRiskCaps(InitDailyRiskState(st.dailyRisk, bal), bal,
                        cfg.maxDailyLiveNotionalUsd, cfg.maxDailyDrawdownUsd)

\* Live mode, a daily cap blocks: setState({dailyRisk}), skipped with the cap's reason
LoadStateCapBlocked(p) ==
  /\ pc[p] = "getState"
  /\ run[p].cfg.mode = "live"
  /\ \E fail \in FailChoices, bal \in BalancesOf(env), threw \in BOOLEAN :
       LET st == GetState(kvs[Target(fail)])
           check == DailyCheck(run[p].cfg, st, bal) IN
       /\ check.blocked
       /\ CaughtAsZero(threw, bal)
       /\ KvDone(fail)
       /\ run' = [run EXCEPT ![p] =
                    [LoadedRun(@, st) EXCEPT !.dailyRisk = check.dailyRisk,
                                             !.reason = check.reason,
                                             !.shouldAlert = check.shouldAlert,
                                             !.patchKind = "cap",
                                             !.patch = [st EXCEPT !.dailyRisk = check.dailyRisk]]]
       /\ obs' = [obs EXCEPT ![p].latchAtLoad = kvs["redis"].state.safetyLatch.active,
                              ![p].liveCashBalance = bal,
                              ![p].balanceThrew = threw]
  /\ pc' = [pc EXCEPT ![p] = "setRead"]
  /\ UNCHANGED <<kvs, tokens, processedCount, env, marketCache, hist, reset>>

\* sellPosition derives API credentials and builds a signed client on every call:
\* one signed session per attempted asset
SellSessions(attempted) == Cardinality(attempted)

\* shouldSendLatchAlert: no latch, no alert sent for it yet, or the cooldown is over
ShouldSendLatchAlert(latch, now) ==
  \/ ~latch.present
  \/ latch.lastAlertAt = -1
  \/ now - latch.lastAlertAt >= Ticks(LATCH_ALERT_COOLDOWN_SECONDS)

\* attemptResolveSafetyLatch: the assets still open after the resolution pass, when
\* the sells of `failed` did not go through (all of them when getPositions threw)
RemainingAssets(assets, thrown, failed) ==
  IF thrown THEN assets ELSE SelectSeq(assets, LAMBDA a : a \in failed)

\* Live mode, no cap blocks, the loaded latch is active: one resolution pass, the
\* latch is written back (still active), skipped "safety_latch_active"
LoadStateLatchActive(p) ==
  /\ pc[p] = "getState"
  /\ run[p].cfg.mode = "live"
  /\ \E fail \in FailChoices, bal \in BalancesOf(env), threw \in BOOLEAN :
       LET st == GetState(kvs[Target(fail)])
           check == DailyCheck(run[p].cfg, st, bal)
           assets == st.safetyLatch.unresolvedAssets IN
       /\ ~check.blocked
       /\ st.safetyLatch.active
       /\ CaughtAsZero(threw, bal)
       /\ \E thrown \in BOOLEAN, attempted \in SUBSET Range(assets) :
          \E failed \in SUBSET attempted :
            LET shouldAlert == ShouldSendLatchAlert(st.safetyLatch, Now)
                updatedLatch ==
                  [st.safetyLatch EXCEPT
                     !.active = TRUE,
                     !.unresolvedAssets = RemainingAssets(assets, thrown, failed),
                     !.attempts = @ + 1,
                     !.lastAlertAt = IF shouldAlert THEN Now ELSE @] IN
            /\ thrown => attempted = {} /\ assets # <<>>
            /\ run' = [run EXCEPT ![p] =
                         [LoadedRun(@, st) EXCEPT
                            !.dailyRisk = check.dailyRisk,
                            !.shouldAlert = shouldAlert,
                            !.patchKind = "latch",
                            !.patch = [st EXCEPT !.safetyLatch = updatedLatch,
                                                 !.dailyRisk = check.dailyRisk]]]
            /\ obs' = [obs EXCEPT ![p].latchAtLoad = kvs["redis"].state.safetyLatch.active,
                                   ![p].liveCashBalance = bal,
                                   ![p].balanceThrew = threw,
                                   ![p].sessions = SellSessions(attempted)]
       /\ KvDone(fail)
  /\ pc' = [pc EXCEPT ![p] = "setRead"]
  /\ UNCHANGED <<kvs, tokens, processedCount, env, marketCache, hist, reset>>

\* Live mode, no cap blocks and no active latch was loaded: on to the strategy
LoadStateLiveClear(p) ==
  /\ pc[p] = "getState"
  /\ run[p].cfg.mode = "live"
  /\ \E fail \in FailChoices, bal \in BalancesOf(env), threw \in BOOLEAN :
       LET st == GetState(kvs[Target(fail)])
           check == DailyCheck(run[p].cfg, st, bal) IN
       /\ ~check.blocked
       /\ ~st.safetyLatch.active
       /\ CaughtAsZero(threw, bal)
       /\ KvDone(fail)
       /\ run' = [run EXCEPT ![p] = [LoadedRun(@, st) EXCEPT !.dailyRisk = check.dailyRisk]]
       /\ obs' = [obs EXCEPT ![p].latchAtLoad = kvs["redis"].state.safetyLatch.active,
                              ![p].liveCashBalance = bal,
                              ![p].balanceThrew = threw]
  /\ pc' = [pc EXCEPT ![p] = "strategy"]
  /\ UNCHANGED <<kvs, tokens, processedCount, env, marketCache, hist, reset>>

\* The balance the preflight queried is not read again
PreflightOver(p) ==
  obs' = [obs EXCEPT ![p].liveCashBalance = 0, ![p].balanceThrew = FALSE, ![p].sessions = 0]

\* ------------------------------------------------------- runPairedStrategy
\* An upstream call throws (balance query, trade tape, API-key derivation): the
\* handler's catch answers 500 and nothing is written
StrategyThrows(p) ==
  /\ pc[p] = "strategy"
  /\ run' = [run EXCEPT ![p].response = "error_500"]
  /\ pc' = [pc EXCEPT ![p] = "releaseGet"]
  /\ PreflightOver(p)
  /\ UNCHANGED <<kvs, backoffLeft, redisFailures, tokens, processedCount, env, marketCache, hist, reset>>

\* Variant: the stop-loss floor is not consulted
PreconditionErrorNoStopLoss(cfg, cashBalance) ==
  /\ cfg.mode = "live"
  /\ \/ cashBalance < Usd(1)
     \/ RunBudgetCapUsd(cashBalance, cfg) < 2 * Usd(POLYMARKET_MIN_ORDER_USD)

\* The live-mode preconditions of runPairedStrategy
PreconditionError(cfg, cashBalance) ==
  /\ cfg.mode = "live"
  /\ \/ cashBalance < Usd(1)
     \/ cfg.stopLossBalance > 0 /\ cashBalance < cfg.stopLossBalance
     \/ RunBudgetCapUsd(cashBalance, cfg) < 2 * Usd(POLYMARKET_MIN_ORDER_USD)

\* Low balance, stop-loss or cap below $2: the result carries an error, no signal
\* is fetched, the handler still writes its bookkeeping
StrategyRefuses(p) ==
  /\ pc[p] = "strategy"
  /\ \E bal \in BalancesOf(env) :
       /\ PreconditionError(run[p].cfg, bal)
       /\ run' = [run EXCEPT ![p].cashBalance = bal,
                             ![p].cap = RunBudgetCapUsd(bal, run[p].cfg),
                             ![p].remaining = RunBudgetCapUsd(bal, run[p].cfg),
                             ![p].errored = TRUE]
  /\ pc' = [pc EXCEPT ![p] = "finish"]
  /\ PreflightOver(p)
  /\ UNCHANGED <<kvs, backoffLeft, redisFailures, tokens, processedCount,
                 env, marketCache, hist, reset>>

\* The market cache is followed where lookups can fail (env.wildTape): where every
\* lookup answers with a tradeable market a stored answer equals a fresh one
CacheFollowed == env.wildTape

\* let client = null; if (mode === "live") { ... client = new ClobClient(...signer, creds...) }
SignedSessions(mode) == IF mode = "live" THEN 1 ELSE 0

\* Balance and signals are fetched, the budget is set, the order client is built
\* (live mode), the loop starts
StrategyBegins(p) ==
  /\ pc[p] = "strategy"
  /\ \E bal \in BalancesOf(env), tape \in TapesOf(env) :
       LET built == GetRecentPairSignals(marketCache, tape) IN
       /\ ~PreconditionError(run[p].cfg, bal)
       /\ marketCache' = IF CacheFollowed THEN CacheAfter(marketCache, tape) ELSE marketCache
       /\ obs' = [obs EXCEPT ![p].liveCashBalance = 0, ![p].balanceThrew = FALSE,
                              ![p].sessions = SignedSessions(run[p].cfg.mode),
                              ![p].diagnostics = built.diagnostics,
                              ![p].lookups = built.lookups]
       /\ run' = [run EXCEPT ![p].cashBalance = bal,
                             ![p].cap = RunBudgetCapUsd(bal, run[p].cfg),
                             ![p].remaining = RunBudgetCapUsd(bal, run[p].cfg),
                             ![p].signals = built.signals,
                             ![p].idx = 1,
                             ![p].unresolved = 0]
  /\ pc' = [pc EXCEPT ![p] = "loop"]
  /\ UNCHANGED <<kvs, backoffLeft, redisFailures, tokens, processedCount,
                 env, hist, reset>>

CurrentSignal(p) == run[p].signals[run[p].idx]
InLoop(p) == pc[p] = "loop" /\ run[p].idx <= Len(run[p].signals)

\* for (const signal of signals) is exhausted
LoopEnds(p) ==
  /\ pc[p] = "loop"
  /\ run[p].idx > Len(run[p].signals)
  /\ pc' = [pc EXCEPT ![p] = "finish"]
  /\ UNCHANGED <<kvs, backoffLeft, redisFailures, tokens, run, processedCount,
                 env, marketCache, hist, reset, obs>>

\* break: max markets reached or remaining budget too small
LoopBreaks(p) ==
  /\ InLoop(p)
  /\ Evaluate(run[p], CurrentSignal(p)).kind = "break"
  /\ pc' = [pc EXCEPT ![p] = "finish"]
  /\ UNCHANGED <<kvs, backoffLeft, redisFailures, tokens, run, processedCount,
                 env, marketCache, hist, reset, obs>>

\* continue: the signal is rejected before admission
SignalRejected(p) ==
  /\ InLoop(p)
  /\ Evaluate(run[p], CurrentSignal(p)).kind = "reject"
  /\ run' = [run EXCEPT ![p].idx = @ + 1]
  /\ obs' = [obs EXCEPT ![p].ladder = <<>>]
  /\ UNCHANGED <<kvs, backoffLeft, redisFailures, tokens, pc, processedCount, env, marketCache, hist, reset>>

\* Variant: the paper branch is never taken
PaperModeNever(mode) == FALSE

\* if (mode === "paper") { ...simulate...; continue; }
PaperMode(mode) == mode = "paper"

\* How often the keys newly added to the processed set have been processed
CountProcessed(before, after) ==
  [k \in SignalKeys |->
     IF k \in after.copiedSet \ before.copiedSet THEN Min(2, processedCount[k] + 1)
     ELSE processedCount[k]]

\* Paper mode: the admitted signal is filled in simulation, no order is sent
PaperFill(p) ==
  /\ InLoop(p)
  /\ PaperMode(run[p].cfg.mode)
  /\ LET sig == CurrentSignal(p)
         e == Evaluate(run[p], sig)
         next == RecordPair([run[p] EXCEPT !.eligible = @ + 1], sig, e.legA, e.legB) IN
     /\ e.kind = "admit"
     /\ run' = [run EXCEPT ![p] = next]
     /\ obs' = [obs EXCEPT ![p].spent = @ + e.legA + e.legB, ![p].ladder = <<>>]
     /\ processedCount' = CountProcessed(run[p], next)
  /\ UNCHANGED <<kvs, backoffLeft, redisFailures, tokens, pc, env, marketCache, hist, reset>>

\* Live mode: the admitted signal goes through the order ladder; the exchange
\* decides each order
LiveExecute(p) ==
  /\ InLoop(p)
  /\ ~PaperMode(run[p].cfg.mode)
  /\ LET sig == CurrentSignal(p)
         e == Evaluate(run[p], sig) IN
     /\ e.kind = "admit"
     /\ \E a, b, r, u \in BOOLEAN :
          LET ladder == Ladder(a, b, r, u)
              o == Outcome(ladder)
              next == AfterLadder([run[p] EXCEPT !.eligible = @ + 1], sig, e.legA, e.legB, ladder)
          IN
          /\ run' = [run EXCEPT ![p] = next]
          /\ obs' = [obs EXCEPT
                ![p].ladder = ladder,
                ![p].bought = TRUE,
                ![p].spent = IF o \in {"both_filled", "recovered"} THEN @ + e.legA + e.legB ELSE @,
                ![p].unwindFailed = IF o = "unresolved" THEN Append(@, AssetA(sig)) ELSE @,
                ![p].unresolvedKeys = IF o = "unresolved" THEN @ \cup {SignalKey(sig)} ELSE @]
          /\ processedCount' = CountProcessed(run[p], next)
          /\ hist' = [hist EXCEPT !.legAFailed =
                        IF o = "leg_a_rejected" THEN @ \cup {SignalKey(sig)} ELSE @]
          /\ pc' = [pc EXCEPT ![p] = IF next.tripped THEN "finish" ELSE "loop"]
  /\ UNCHANGED <<kvs, backoffLeft, redisFailures, tokens, env, marketCache, reset>>

\* ----------------------------------------------------- after the strategy
\* result.budgetUsedUsd: set on the normal exit only
BudgetUsedUsd(r) == IF r.errored THEN 0 ELSE Max(0, r.cap - r.remaining)

\* POST: the latch this run leaves behind: a new one when the circuit breaker
\* tripped in live mode, else the one that was loaded
LatchAfterRun(r) ==
  IF r.cfg.mode = "live" /\ r.tripped
    THEN [present |-> TRUE, active |-> TRUE, unresolvedAssets |-> r.exposure, attempts |-> 0,
          lastAlertAt |-> -1]
    ELSE r.st.safetyLatch

\* POST: the keys of the final setState
FinalPatch(r) ==
  [ lastTimestamp |-> r.lastTs,
    copiedKeys |-> IF r.copiedSet # {} THEN r.copiedSet ELSE r.st.copiedKeys,
    safetyLatch |-> LatchAfterRun(r),
    dailyRisk |-> IF r.cfg.mode = "live"
                    THEN ApplyDailyLiveRun(r.dailyRisk, BudgetUsedUsd(r))
                    ELSE r.st.dailyRisk ]

\* A notification about the latch goes out now
LatchNotified(h) ==
  [h EXCEPT !.clock = IF @ = -1 THEN 0 ELSE @,
            !.latchNotes = @ + 1,
            !.lastLatchNote = IF h.clock = -1 THEN 0 ELSE h.clock]

\* POST: sendAlert "Live circuit breaker tripped" when the new latch is built
AfterStrategy(r) ==
  IF r.cfg.mode = "live" /\ r.tripped THEN LatchNotified(hist) ELSE hist

\* await sendAlert(...): the webhook is fetched without a timeout, so the call
\* returns (delivered or failed, both swallowed) or never does. Whether the sink
\* of a deployment can hang is env.sinkMayHang.
SinkHangs(sent) == IF sent /\ env.sinkMayHang THEN BOOLEAN ELSE {FALSE}

\* POST: the alerts awaited before the final setState
TripAlertSent(r) == r.cfg.mode = "live" /\ r.tripped

\* The host ends the invocation at maxDuration: nothing more runs, finally included
Killed(p) ==
  /\ pc' = [pc EXCEPT ![p] = "idle"]
  /\ run' = [run EXCEPT ![p] = IdleRun]
  /\ obs' = [obs EXCEPT ![p] = IdleObs]

\* runPairedStrategy has returned: the trip alert is sent, the patch is built; of
\* the result only what the response still reads is kept
Finish(p) ==
  /\ pc[p] = "finish"
  /\ \E hangs \in SinkHangs(TripAlertSent(run[p])) :
       IF hangs THEN Killed(p)
       ELSE /\ run' = [run EXCEPT ![p] = [IdleRun EXCEPT !.token = run[p].token,
                                                          !.cfg = run[p].cfg,
                                                          !.tripped = run[p].tripped,
                                                          !.exposure = run[p].exposure,
                                                          !.patchKind = "final",
                                                          !.patch = FinalPatch(run[p])]]
            /\ pc' = [pc EXCEPT ![p] = "setRead"]
            /\ obs' = [obs EXCEPT ![p] = [IdleObs EXCEPT !.bought = obs[p].bought,
                                                          !.latchAtLoad = obs[p].latchAtLoad,
                                                          !.resetAfterLoad = obs[p].resetAfterLoad,
                                                          !.unwindFailed = obs[p].unwindFailed]]
  /\ hist' = AfterStrategy(run[p])
  /\ UNCHANGED <<kvs, backoffLeft, redisFailures, tokens, processedCount, env, marketCache, reset>>

\* setState, first half: const current = await getState()
SetStateRead(p) ==
  /\ pc[p] = "setRead"
  /\ \E fail \in FailChoices :
       /\ KvDone(fail)
       /\ run' = [run EXCEPT ![p].cur = GetState(kvs[Target(fail)])]
  /\ pc' = [pc EXCEPT ![p] = "setWrite"]
  /\ PreflightOver(p)
  /\ UNCHANGED <<kvs, tokens, processedCount, env, marketCache, hist, reset>>

ResponseOf(r) ==
  CASE r.patchKind = "mode_off" -> "mode_off"
    [] r.patchKind = "cap" -> r.reason
    [] r.patchKind = "latch" -> "safety_latch_active"
    [] OTHER -> "ok"

\* What the handler does between its setState and its answer: on the daily-cap
\* exit, sendAlert when dailyCheck.shouldAlert; on the latch exit, sendAlert when
\* shouldSendLatchAlert said so
AfterSetState(r) ==
  IF r.patchKind = "cap"
    THEN [hist EXCEPT !.capBlocks[r.reason] = @ + 1,
                      !.capAlerts[r.reason] = IF r.shouldAlert THEN @ + 1 ELSE @]
  ELSE IF r.patchKind = "latch" /\ r.shouldAlert THEN LatchNotified(hist)
  ELSE hist

\* POST: the alerts awaited after the setState of an early exit
StateAlertSent(r) == r.patchKind \in {"cap", "latch"} /\ r.shouldAlert

\* recordStrategyDiagnostics is called after the final setState only
RecordsDiagnostics(r) == r.patchKind = "final"

\* setState, second half: kv.set(STATE_KEY, {...current, ...state}); the handler
\* then answers
SetStateWrite(p) ==
  /\ pc[p] = "setWrite"
  /\ \E fail \in FailChoices :
       /\ KvDone(fail)
       /\ kvs' = [kvs EXCEPT ![Target(fail)].state =
                    MergeState(run[p].cur, run[p].patchKind, run[p].patch)]
  /\ \E hangs \in SinkHangs(StateAlertSent(run[p])) :
       IF hangs THEN Killed(p)
       ELSE /\ run' = [run EXCEPT ![p].response = ResponseOf(run[p])]
            /\ obs' = [obs EXCEPT ![p].diagnosticsRecorded = RecordsDiagnostics(run[p])]
            /\ pc' = [pc EXCEPT ![p] = "releaseGet"]
  /\ hist' = AfterSetState(run[p])
  /\ UNCHANGED <<tokens, processedCount, env, marketCache, reset>>

\* releaseRunLock, first half: const current = await kv.get(RUN_LOCK_KEY)
ReleaseGet(p) ==
  /\ pc[p] = "releaseGet"
  /\ \E fail \in FailChoices :
       /\ KvDone(fail)
       /\ IF kvs[Target(fail)].lock.token = run[p].token
            THEN /\ pc' = [pc EXCEPT ![p] = "releaseDel"]
                 /\ UNCHANGED <<run, obs>>
            ELSE /\ pc' = [pc EXCEPT ![p] = "idle"]
                 /\ run' = [run EXCEPT ![p] = IdleRun]
                 /\ obs' = [obs EXCEPT ![p] = IdleObs]
  /\ UNCHANGED <<kvs, tokens, processedCount, env, marketCache, hist, reset>>

\* releaseRunLock, second half: await kv.del(RUN_LOCK_KEY)
ReleaseDel(p) ==
  /\ pc[p] = "releaseDel"
  /\ \E fail \in FailChoices :
       /\ KvDone(fail)
       /\ kvs' = [kvs EXCEPT ![Target(fail)].lock = NoLock]
  /\ pc' = [pc EXCEPT ![p] = "idle"]
  /\ run' = [run EXCEPT ![p] = IdleRun]
  /\ obs' = [obs EXCEPT ![p] = IdleObs]
  /\ UNCHANGED <<tokens, processedCount, env, marketCache, hist, reset>>

\* ------------------------------------------------------------ manual reset
\* An invocation that has loaded the state and has not yet written it back
HoldsLoadedState(p) == pc[p] \in {"strategy", "loop", "finish", "setRead", "setWrite"}

\* resetSyncState, first half: const current = await getState(); no lock is taken
ResetRead ==
  /\ reset.pc = "idle"
  /\ env.resetAnytime \/ WorkerStopped
  /\ reset.count < MaxResets
  /\ \E fail \in FailChoices :
       /\ KvDone(fail)
       /\ reset' = [reset EXCEPT !.pc = "write", !.cur = GetState(kvs[Target(fail)])]
  /\ UNCHANGED <<kvs, tokens, pc, run, processedCount, env, marketCache, hist, obs>>

\* What resetSyncState stores: the state read, with the watermark, the processed
\* keys and the latch cleared
ResetState(current) ==
  [current EXCEPT !.lastTimestamp = 0, !.copiedKeys = {}, !.safetyLatch = NoLatch]

\* resetSyncState, second half: kv.set(STATE_KEY, {...current, lastTimestamp: 0, ...})
ResetWrite ==
  /\ reset.pc = "write"
  /\ \E fail \in FailChoices :
       /\ KvDone(fail)
       /\ kvs' = [kvs EXCEPT ![Target(fail)].state = ResetState(reset.cur)]
  /\ reset' = [IdleReset EXCEPT !.count = reset.count + 1]
  /\ obs' = [p \in Procs |->
               [obs[p] EXCEPT !.resetAfterLoad = @ \/ HoldsLoadedState(p)]]
  /\ hist' = [hist EXCEPT !.latchNotes = 0, !.lastLatchNote = -1]
  /\ UNCHANGED <<tokens, pc, run, processedCount, env, marketCache>>

Next ==
  \/ Tick
  \/ ResetRead
  \/ ResetWrite
  \/ \E p \in Procs :
       \/ Trigger(p)
       \/ LoadConfig(p)
       \/ LoadStatePaper(p)
       \/ LoadStateCapBlocked(p)
       \/ LoadStateLatchActive(p)
       \/ LoadStateLiveClear(p)
       \/ StrategyThrows(p)
       \/ StrategyRefuses(p)
       \/ StrategyBegins(p)
       \/ LoopEnds(p)
       \/ LoopBreaks(p)
       \/ SignalRejected(p)
       \/ PaperFill(p)
       \/ LiveExecute(p)
       \/ Finish(p)
       \/ SetStateRead(p)
       \/ SetStateWrite(p)
       \/ ReleaseGet(p)
       \/ ReleaseDel(p)

Spec == Init /\ [][Next]_vars

SpecWorker == InitWorker /\ [][Next]_vars

SpecOperator == InitOperator /\ [][Next]_vars

SpecSizing == InitSizing /\ [][Next]_vars

SpecTape == InitTape /\ [][Next]_vars

\* What an invocation does once it holds the lock: every step but the trigger
Handler(p) ==
  \/ LoadConfig(p)
  \/ LoadStatePaper(p)
  \/ LoadStateCapBlocked(p)
  \/ LoadStateLatchActive(p)
  \/ LoadStateLiveClear(p)
  \/ StrategyThrows(p)
  \/ StrategyRefuses(p)
  \/ StrategyBegins(p)
  \/ LoopEnds(p)
  \/ LoopBreaks(p)
  \/ SignalRejected(p)
  \/ PaperFill(p)
  \/ LiveExecute(p)
  \/ Finish(p)
  \/ SetStateRead(p)
  \/ SetStateWrite(p)
  \/ ReleaseGet(p)
  \/ ReleaseDel(p)

\* Spec with what the host guarantees: time passes, and an invocation that has
\* started runs on to its end (triggers and resets stay up to their callers)
SpecFair ==
  /\ Init
  /\ [][Next]_vars
  /\ WF_vars(Tick)
  /\ \A p \in Procs : WF_vars(Handler(p))

\* ================================================================== claims
Running(p) == pc[p] # "idle"
Persisted == kvs["redis"].state

\* C1: at most one run is between a successful acquireRunLock and its
\* releaseRunLock at any time, whatever the interleaving of the triggers.
C1_MutualExclusion == Cardinality({p \in Procs : Running(p)}) <= 1

\* C2: a live run that loads its state while the persisted latch is active submits
\* no buy order and answers skipped with reason "safety_latch_active".
C2_ActiveLatchBlocksLiveRun ==
  \A p \in Procs :
    obs[p].latchAtLoad =>
      /\ ~obs[p].bought
      /\ run[p].patchKind = "latch"
      /\ run[p].response \in {"none", "safety_latch_active"}

\* C3: without a reset in between, a signal key is marked processed (paper fill,
\* both legs filled, or recovered by the retry) at most once over all runs.
C3_KeyProcessedAtMostOnce == \A k \in SignalKeys : processedCount[k] <= 1

InStrategy(p) == pc[p] \in {"loop", "finish"}
Live(p) == run[p].cfg.mode = "live"

\* The step is the execution of one admitted live signal by p
LiveSignalStep(p) ==
  /\ pc[p] = "loop"
  /\ Live(p)
  /\ run'[p].eligible = run[p].eligible + 1

\* C4: in every run the leg notionals of the executed pairs sum to at most
\* runBudgetCapUsd, and the remaining budget never increases and is never negative.
C4_BudgetCap ==
  [][\A p \in Procs :
       pc[p] = "loop" /\ pc'[p] \in {"loop", "finish"} =>
         /\ run'[p].remaining <= run[p].remaining
         /\ run'[p].remaining >= 0
         /\ run'[p].cap = run[p].cap
         /\ obs'[p].spent <= run'[p].cap]_vars

\* A live run fills a pair and then turns down a floored pair that no longer fits
C4_Witness ==
  \E p \in Procs :
    /\ InLoop(p)
    /\ Live(p)
    /\ obs[p].spent > 0
    /\ Evaluate(run[p], CurrentSignal(p)).reason = "pair_exceeds_remaining_budget"

\* The order ladder the claim allows
StrictLadder(l) ==
  /\ l[1] = Order("A", "BUY", l[1].ok)
  /\ IF ~l[1].ok THEN Len(l) = 1
     ELSE /\ Len(l) >= 2
          /\ l[2] = Order("B", "BUY", l[2].ok)
          /\ IF l[2].ok THEN Len(l) = 2
             ELSE /\ Len(l) >= 3
                  /\ l[3] = Order("B", "BUY", l[3].ok)
                  /\ IF l[3].ok THEN Len(l) = 3
                     ELSE /\ Len(l) = 4
                          /\ l[4] = Order("A", "SELL", l[4].ok)

\* C5: leg A is bought first; leg B only if leg A filled; leg B is retried once and
\* only if it failed; after two leg B failures exactly one unwind sell of leg A is
\* attempted, and only a failed unwind declares the signal unresolved exposure.
C5_OrderLadder ==
  [][\A p \in Procs :
       LiveSignalStep(p) =>
         LET l == obs'[p].ladder IN
         /\ l # <<>>
         /\ StrictLadder(l)
         /\ (run'[p].unresolved # run[p].unresolved) =
              (Len(l) = 4 /\ ~l[4].ok /\ run'[p].unresolved = run[p].unresolved + 1)
         /\ Len(l) = 4 /\ ~l[4].ok => run'[p].unresolved # run[p].unresolved]_vars

\* Leg A filled, leg B failed twice, the one unwind sell failed: unresolved exposure
C5_Witness ==
  \E p \in Procs :
    /\ InStrategy(p)
    /\ Len(obs[p].ladder) = 4
    /\ ~obs[p].ladder[4].ok
    /\ run[p].unresolved = 1

\* C6: unresolvedImbalances starts at 0 and never exceeds
\* maxUnresolvedImbalancesPerRun; once it reaches the cap the loop is left: no
\* further signal is evaluated, no further order is submitted.
C6_UnresolvedCap ==
  \A p \in Procs :
    /\ pc[p] = "loop" =>
         /\ run[p].unresolved < MaxUnresolvedImbalancesPerRun(run[p].cfg)
         /\ run[p].idx = 1 => run[p].unresolved = 0
    /\ pc[p] = "finish" =>
         run[p].unresolved <= MaxUnresolvedImbalancesPerRun(run[p].cfg)

\* The cap is reached and the loop is left with a signal still waiting
C6_Witness ==
  \E p \in Procs :
    /\ pc[p] = "finish"
    /\ run[p].unresolved = MaxUnresolvedImbalancesPerRun(run[p].cfg)
    /\ run[p].idx <= Len(run[p].signals)

\* C7: leg A filled, leg B failed twice, the unwind sell succeeded: one failed pair
\* is tallied, nothing is added to the residual-exposure list, unresolvedImbalances
\* is unchanged, no latch results, the key is not processed, and the loop goes on.
C7_UnwoundIsClosed ==
  [][\A p \in Procs :
       LiveSignalStep(p) /\ Outcome(obs'[p].ladder) = "unwound" =>
         /\ run'[p].failed = run[p].failed + 1
         /\ run'[p].exposure = run[p].exposure
         /\ run'[p].unresolved = run[p].unresolved
         /\ run'[p].tripped = run[p].tripped
         /\ LatchAfterRun(run'[p]) = LatchAfterRun(run[p])
         /\ run'[p].copiedSet = run[p].copiedSet
         /\ run'[p].copied = run[p].copied
         /\ run'[p].remaining = run[p].remaining
         /\ run'[p].idx = run[p].idx + 1
         /\ pc'[p] = "loop"]_vars

\* An unwound signal behind, the next signal of the run ahead
C7_Witness ==
  \E p \in Procs :
    /\ InLoop(p)
    /\ Live(p)
    /\ obs[p].ladder # <<>>
    /\ Outcome(obs[p].ladder) = "unwound"
    /\ run[p].failed = 1
    /\ run[p].exposure = <<>>

\* C8: in a live run the residual-exposure list holds, without duplicates, exactly
\* the leg A tokens whose unwind sell failed in the run; unresolvedImbalances counts
\* those failures; none of their signal keys is in the processed-key set.
C8_ResidualExposure ==
  \A p \in Procs :
    InStrategy(p) /\ Live(p) =>
      /\ Range(run[p].exposure) = Range(obs[p].unwindFailed)
      /\ Cardinality(Range(run[p].exposure)) = Len(run[p].exposure)
      /\ run[p].unresolved = Len(obs[p].unwindFailed)
      /\ obs[p].unresolvedKeys \cap run[p].copiedSet = {}

\* A live run ends with two failed unwinds on record
C8_Witness ==
  \E p \in Procs :
    /\ pc[p] = "finish"
    /\ Live(p)
    /\ Len(obs[p].unwindFailed) = 2
    /\ Cardinality(obs[p].unresolvedKeys) = 2

\* The handler has written its state and is about to release the lock
Written(p) == pc[p] \in {"releaseGet", "releaseDel"} /\ run[p].patchKind # "none"

\* C9: a live run that ends with a failed unwind on record leaves an active
\* SafetyLatch in the store, whatever maxUnresolvedImbalancesPerRun is.
C9_ExposureAlwaysLatched ==
  \A p \in Procs :
    Written(p) /\ Live(p) /\ obs[p].unwindFailed # <<>> =>
      \E s \in Stores : kvs[s].state.safetyLatch.active

\* C10: a live run that tripped the circuit breaker persists an active latch with
\* its (non-empty) residual-exposure list and attempts = 0, and a live run that
\* finds the persisted latch active answers skipped "safety_latch_active".
C10_BreakerPersistsLatch ==
  \A p \in Procs :
    /\ Written(p) /\ Live(p) /\ run[p].tripped =>
         /\ run[p].exposure # <<>>
         /\ Persisted.safetyLatch =
              [ present |-> TRUE, active |-> TRUE,
                unresolvedAssets |-> run[p].exposure, attempts |-> 0, lastAlertAt |-> -1 ]
    /\ Written(p) /\ obs[p].latchAtLoad => run[p].response = "safety_latch_active"

\* C11: after a resolution pass that found every residual asset closed or absent,
\* the persisted latch is no longer active (no manual reset needed).
C11_ResolvedLatchIsCleared ==
  \A p \in Procs :
    Written(p) /\ run[p].patchKind = "latch" /\ run[p].patch.safetyLatch.unresolvedAssets = <<>> =>
      ~Persisted.safetyLatch.active

\* C12: once resetSyncState has completed, the persisted state has no active latch,
\* watermark 0 and no processed keys, also after a run that was executing while the
\* reset was made has written its state (and has tripped no breaker of its own).
C12_ResetClearsLatch ==
  \A p \in Procs :
    obs[p].resetAfterLoad /\ Written(p) /\ ~run[p].tripped =>
      ~Persisted.safetyLatch.active

\* C13: a run that acquired the lock has released it when its handler returns,
\* whatever the exit path: a lock key that is still set belongs to a run that is
\* still executing.
C13_LockReleasedOnExit ==
  \A s \in Stores :
    kvs[s].lock.token # 0 => \E p \in Procs : Running(p) /\ run[p].token = kvs[s].lock.token

\* The step is the execution by p of a signal whose leg A had failed before
RetryOfLegAFailure(p) ==
  LiveSignalStep(p) /\ SignalKey(CurrentSignal(p)) \in hist.legAFailed

\* The step is a live execution by p in which leg A fails
LegAFailureStep(p) ==
  LiveSignalStep(p) /\ SignalKey(CurrentSignal(p)) \in hist'.legAFailed

\* C14 as stated: a signal whose leg A order failed in a live run is never
\* submitted again, in no subsequent run.
C14_LegAFailureNeverRetried ==
  [][\A p \in Procs : ~RetryOfLegAFailure(p)]_vars

\* C14, amended: a leg A failure neither marks the key processed nor moves the
\* watermark, and the signal is submitted again only by a run that loaded a
\* watermark still below the signal's timestamp.
C14_LegAFailureRetriedOnlyBelowWatermark ==
  [][\A p \in Procs :
       /\ LegAFailureStep(p) /\ ~RetryOfLegAFailure(p) =>
            /\ run'[p].copiedSet = run[p].copiedSet
            /\ run'[p].lastTs = run[p].lastTs
       /\ RetryOfLegAFailure(p) => CurrentSignal(p).ts > run[p].st.lastTimestamp]_vars

\* A run has before it a signal whose leg A failed in an earlier run, after the
\* persisted watermark has moved past that signal
C14_Witness ==
  \E p \in Procs :
    /\ pc[p] = "loop" /\ Live(p) /\ InLoop(p)
    /\ SignalKey(CurrentSignal(p)) \in hist.legAFailed
    /\ CurrentSignal(p).ts <= run[p].st.lastTimestamp
    /\ run[p].remaining >= Usd(2)

\* The step is p working on one signal of its list, or leaving the loop
SignalStep(p) == pc[p] = "loop" /\ run'[p] # run[p]

\* The step is the second half of p's setState
StateWritten(p) == pc[p] = "setWrite" /\ pc'[p] = "releaseGet"

\* C15: within a run the watermark moves only when a key is marked processed, and
\* then to the maximum of itself and the key's timestamp; the run persists that
\* value, and no run's write lowers the persisted watermark.
C15_WatermarkMonotone ==
  [][\A p \in Procs :
       /\ SignalStep(p) =>
            run'[p].lastTs =
              IF run'[p].copiedSet # run[p].copiedSet
                THEN Max(run[p].lastTs, CurrentSignal(p).ts)
                ELSE run[p].lastTs
       /\ StateWritten(p) =>
            /\ Persisted'.lastTimestamp >= Persisted.lastTimestamp
            /\ run[p].patchKind = "final" =>
                 Persisted'.lastTimestamp = run[p].patch.lastTimestamp]_vars

\* The step is the preflight of a live run p: getState, balance query, daily caps
LivePreflight(p) == pc[p] = "getState" /\ Live(p) /\ pc'[p] # "getState"

\* The daily drawdown the preflight of p saw
DrawdownUsd(p) == Max(0, run[p].dailyRisk.dayStartBalanceUsd - obs[p].liveCashBalance)

\* The daily caps block p, as the specification words it
CapReached(p) ==
  \/ /\ run[p].cfg.maxDailyDrawdownUsd > 0
     /\ DrawdownUsd(p) >= run[p].cfg.maxDailyDrawdownUsd
  \/ /\ run[p].cfg.maxDailyLiveNotionalUsd > 0
     /\ run[p].dailyRisk.liveNotionalUsd >= run[p].cfg.maxDailyLiveNotionalUsd

\* C16: a live run is skipped at the preflight for a daily cap, with no order sent,
\* exactly when the drawdown or the day's live notional has reached its cap; a cap
\* of 0 never blocks.
C16_DailyCapBlocksExactly ==
  [][\A p \in Procs :
       LivePreflight(p) =>
         /\ (run'[p].patchKind = "cap") = CapReached(p)'
         /\ run'[p].patchKind = "cap" =>
              /\ pc'[p] = "setRead"
              /\ ~obs'[p].bought
              /\ run'[p].reason \in {"daily_notional_cap", "daily_drawdown_cap"}]_vars

\* A live run was blocked for its drawdown alone, the day's notional below its cap
C16_Witness ==
  \E p \in Procs :
    /\ pc[p] = "setRead" /\ Live(p)
    /\ run[p].patchKind = "cap"
    /\ run[p].reason = "daily_drawdown_cap"
    /\ run[p].dailyRisk.liveNotionalUsd < run[p].cfg.maxDailyLiveNotionalUsd
    /\ DrawdownUsd(p) >= run[p].cfg.maxDailyDrawdownUsd

\* C17: over the live runs of one UTC day that a daily cap blocks, the alert for
\* that cap is sent by the first blocked run and by no later one.
C17_OneAlertPerCap ==
  \A c \in CapReasons : hist.capAlerts[c] = Min(1, hist.capBlocks[c])

\* The body of p's handler is over: only the release of the lock is left
HandlerOver(p) == pc[p] \in {"releaseGet", "releaseDel"}

\* C18: every run that acquired the lock has recorded a diagnostics entry by the
\* time it ends, whatever its outcome.
C18_DiagnosticsAlwaysRecorded ==
  \A p \in Procs : HandlerOver(p) => obs[p].diagnosticsRecorded

\* p has ended with the top-level error, no order sent and no run state written
EndedInError(p) ==
  /\ pc[p] = "releaseGet"
  /\ run[p].response = "error_500"
  /\ ~obs[p].bought
  /\ run[p].patchKind = "none"

\* C19: a run whose balance query or trade-tape fetch fails ends there with a
\* top-level error, having submitted no order and written no run state.
C19_UpstreamFailureIsFatal ==
  [][\A p \in Procs :
       /\ LivePreflight(p) /\ obs'[p].balanceThrew => EndedInError(p)'
       /\ run'[p].response = "error_500" => EndedInError(p)']_vars

\* The lock key carries the token of q, which is executing
HoldsLock(q) == Running(q) /\ \E s \in Stores : kvs[s].lock.token = run[q].token

\* The step is the passing of 60 seconds
TimePasses ==
  /\ redisFailures' = redisFailures
  /\ backoffLeft' = Max(0, backoffLeft - 1)
  /\ kvs' = [s \in Stores |-> [kvs[s] EXCEPT !.lock = AgeLock(@)]]

\* The step starts or advances no handler and no reset: a trigger answered "busy"
BusyAnswer == pc' = pc /\ run' = run /\ reset' = reset /\ ~TimePasses

\* C20: while another run holds the lock a trigger is answered "busy" at once, and
\* that answer reads and writes no config or run state, submits no order and
\* leaves the lock as it is.
C20_BusyTriggerIsSkipped ==
  [][/\ \A p \in Procs :
          pc[p] = "idle" /\ (\E q \in Procs \ {p} : HoldsLock(q)) => pc'[p] = "idle"
     /\ BusyAnswer =>
          /\ kvs' = kvs
          /\ obs' = obs
          /\ tokens' = tokens
          /\ processedCount' = processedCount]_vars

\* The step is the second half of p's releaseRunLock
LockDeleted(p) == pc[p] = "releaseDel" /\ pc'[p] = "idle"

\* C21: releaseRunLock never deletes a lock key whose value is another run's
\* token: the only key its delete removes is the caller's own.
C21_ReleaseDeletesOwnLockOnly ==
  [][\A p \in Procs :
       LockDeleted(p) =>
         \A s \in Stores :
           kvs'[s].lock # kvs[s].lock => kvs[s].lock.token = run[p].token]_vars

\* The lock key of store s is set and no executing run holds it
StaleLock(s) ==
  /\ kvs[s].lock.token # 0
  /\ \A p \in Procs : Running(p) => run[p].token # kvs[s].lock.token

\* A trigger of p now would acquire the lock
Acquires(p) == Trigger(p) /\ pc'[p] = "getConfig"

\* No store holds a lock key
LockFree == \A s \in Stores : kvs[s].lock.token = 0

\* C22: a lock key left behind by a run that ended without releasing it is gone
\* once its TTL has elapsed, and a trigger that arrives when the key is gone
\* acquires the lock: no run is blocked forever.
C22_StaleLockExpires ==
  /\ \A s \in Stores : StaleLock(s) ~> kvs[s].lock.token = 0
  /\ [](\A p \in Procs :
          p \in env.procs /\ pc[p] = "idle" /\ tokens < MaxRuns /\ WorkerMayRun /\ LockFree
            => ENABLED Acquires(p))

\* A run has ended and its token is still the value of the Redis lock key
C22_Witness == StaleLock("redis")

\* ---- C23
\* The orders a live run has sent went through a signed session
SubmittedOrders(p) == InStrategy(p) /\ obs[p].ladder # <<>>

\* C23: a live run creates exactly one signed order-submission session, and every
\* order of the run (buy legs, retry, unwind sell, latch-resolution sells) goes
\* through it: a live run never holds more than one session, and holds one when
\* it has sent an order.
C23_OneSessionPerLiveRun ==
  \A p \in Procs :
    Running(p) /\ Live(p) =>
      /\ obs[p].sessions <= 1
      /\ SubmittedOrders(p) => obs[p].sessions = 1

\* ---- C24
\* No order of any kind has left the run, and no signed session was opened
NoOrderSent(o) ==
  /\ ~o.bought
  /\ o.ladder = <<>>
  /\ o.unwindFailed = <<>>
  /\ o.sessions = 0

NotLive(p) == Running(p) /\ run[p].cfg.mode \in {"off", "paper"}

\* A paper run fills an admitted signal in simulation
PaperStep(p) == NotLive(p) /\ pc[p] = "loop" /\ run'[p].paper > run[p].paper

\* The fields of the run a simulated fill may write
PaperFrame(r, w) ==
  [w EXCEPT !.copiedSet = r.copiedSet, !.copied = r.copied, !.paper = r.paper,
            !.eligible = r.eligible, !.remaining = r.remaining, !.lastTs = r.lastTs,
            !.idx = r.idx] = r

\* C24: a run in mode off or paper never submits an order to the exchange; a
\* simulated fill only marks the key processed, adds the leg notionals to the
\* simulated volume, debits the remaining budget and advances the watermark.
C24_NoOrdersUnlessLive ==
  /\ [](\A p \in Procs : NotLive(p) => NoOrderSent(obs[p]))
  /\ [][\A p \in Procs :
          PaperStep(p) =>
            LET sig == CurrentSignal(p)
                e == Evaluate(run[p], sig) IN
            /\ PaperFrame(run[p], run'[p])
            /\ SignalKey(sig) \in run'[p].copiedSet
            /\ obs'[p].spent = obs[p].spent + e.legA + e.legB
            /\ run'[p].remaining = Max(0, run[p].remaining - (e.legA + e.legB))
            /\ run'[p].lastTs = Max(run[p].lastTs, sig.ts)
            /\ kvs' = kvs]_vars

C24_Witness ==
  \E p \in Procs :
    /\ NotLive(p)
    /\ pc[p] = "finish"
    /\ run[p].paper >= 2
    /\ run[p].remaining < run[p].cap

\* ---- C25
\* The outcome of the signal step just taken debits the budget: a simulated fill,
\* both legs filled, or leg B filled on retry
DebitingOutcome(p) ==
  \/ run'[p].paper > run[p].paper
  \/ /\ obs'[p].ladder # <<>>
     /\ Outcome(obs'[p].ladder) \in {"both_filled", "recovered"}

\* C25: remainingBudget is debited only when a signal is filled in paper mode,
\* filled on both legs, or recovered by the leg B retry, and then by exactly
\* legA + legB of that signal; a rejection, a leg A failure, an unwound pair or an
\* unresolved imbalance leaves remainingBudget and budgetUsedUsd as they were.
C25_BudgetDebitedOnExecutionOnly ==
  [][\A p \in Procs :
       SignalStep(p) =>
         LET e == Evaluate(run[p], CurrentSignal(p)) IN
         IF DebitingOutcome(p)
           THEN /\ e.kind = "admit"
                /\ run'[p].remaining = run[p].remaining - (e.legA + e.legB)
                /\ BudgetUsedUsd(run'[p]) = BudgetUsedUsd(run[p]) + e.legA + e.legB
           ELSE /\ run'[p].remaining = run[p].remaining
                /\ BudgetUsedUsd(run'[p]) = BudgetUsedUsd(run[p])]_vars

\* A pair was unwound after an earlier pair of the same run was filled
C25_Witness ==
  \E p \in Procs :
    /\ pc[p] = "loop"
    /\ Live(p)
    /\ obs[p].ladder # <<>>
    /\ Outcome(obs[p].ladder) = "unwound"
    /\ run[p].copied = 1
    /\ run[p].remaining = run[p].cap - obs[p].spent
    /\ obs[p].spent > 0

\* ---- C26
SizingReasons ==
  { "pair_spend_non_positive", "leg_below_min_bet", "leg_below_polymarket_min_no_floor",
    "pair_exceeds_remaining_budget" }

\* The signal step just taken failed in execution: leg A rejected (or its call
\* threw), the pair was unwound, or the unwind failed too
ExecutionFailed(p) ==
  /\ obs'[p].ladder # <<>>
  /\ Outcome(obs'[p].ladder) \in {"leg_a_rejected", "unwound", "unresolved"}

\* The signal step just taken rejected the signal for its sizing
SizingRejected(p) ==
  LET e == Evaluate(run[p], CurrentSignal(p)) IN
  e.kind = "reject" /\ e.reason \in SizingReasons

BreakerCapReached(p) ==
  run'[p].unresolved >= MaxUnresolvedImbalancesPerRun(run[p].cfg)

\* C26: a per-signal failure (sizing rejection, leg A rejected or its call
\* throwing, unwound pair, unresolved imbalance below the cap) never aborts the
\* run: the failure is counted, the run carries no error and the loop goes on with
\* the next signal; the loop stops on a failure only when the unresolved imbalances
\* have reached the cap of the circuit breaker.
C26_SignalFailureNeverAborts ==
  [][\A p \in Procs :
       SignalStep(p) /\ (ExecutionFailed(p) \/ SizingRejected(p)) =>
         /\ ExecutionFailed(p) => run'[p].failed = run[p].failed + 1
         /\ SizingRejected(p) => run'[p].failed = run[p].failed
         /\ ~run'[p].errored
         /\ run'[p].response = "none"
         /\ run'[p].idx = run[p].idx + 1
         /\ run'[p].signals = run[p].signals
         /\ IF BreakerCapReached(p) /\ Outcome(obs'[p].ladder) = "unresolved"
              THEN pc'[p] = "finish"
              ELSE pc'[p] = "loop"]_vars

\* After a failed signal (one imbalance left unresolved, below the cap) the next
\* signal of the run was filled
C26_Witness ==
  \E p \in Procs :
    /\ pc[p] = "loop"
    /\ Live(p)
    /\ run[p].idx = 3
    /\ run[p].failed = 1
    /\ run[p].unresolved = 1
    /\ run[p].copied = 1

\* ---- C27
\* The run has passed its first gate: it left with the configuration alone, or
\* it loaded the state and went through the live preflight
PastFirstGate(p) ==
  \/ pc[p] = "getConfig" /\ pc'[p] \in {"setRead", "releaseGet"}
  \/ pc[p] = "getState" /\ pc'[p] # "getState"

\* attemptResolveSafetyLatch was called: the latch is written back with one more
\* attempt counted
ResolutionAttempted(p) ==
  /\ run'[p].patchKind = "latch"
  /\ run'[p].patch.safetyLatch.attempts = Persisted.safetyLatch.attempts + 1

\* C27: a run that starts while the persisted latch is active attempts the
\* automatic resolution first, whatever its mode and whether or not a daily cap
\* is breached.
C27_ResolutionAttemptedFirst ==
  [][\A p \in Procs :
       PastFirstGate(p) /\ Persisted.safetyLatch.active => ResolutionAttempted(p)]_vars

\* ---- C28
\* A notification about the latch is sent in this step
LatchNotification == hist'.latchNotes = hist.latchNotes + 1

\* C28: while a latch persists, two notifications about it (the circuit-breaker
\* trip alert, the later "safety latch active" preflight alerts) are never sent
\* less than 15 minutes apart.
C28_LatchAlertCooldown ==
  [][LatchNotification /\ hist.latchNotes >= 1 /\ Persisted.safetyLatch.active =>
       hist'.lastLatchNote - hist.lastLatchNote >= Ticks(LATCH_ALERT_COOLDOWN_SECONDS)]_vars

\* ---- C29
\* The daily risk state the preflight loaded is of another day, or there is none
NewUtcDay(d) == ~d.present \/ d.dayKey # UtcDayKey

\* C29: the daily risk state is keyed by UTC day. The first live run of a new
\* day starts it afresh: notional, run count and alert flags are zero/false and
\* dayStartBalance is the balance that run observed; a later run of the same
\* day changes neither dayKey nor dayStartBalance, in its own copy or in the
\* persisted state.
C29_DailyRiskKeyedByUtcDay ==
  [][\A p \in Procs :
       /\ LivePreflight(p) =>
            LET was == run'[p].st.dailyRisk
                is == run'[p].dailyRisk IN
            IF NewUtcDay(was)
              THEN /\ is.present
                   /\ is.dayKey = UtcDayKey
                   /\ ~obs'[p].balanceThrew
                   /\ is.dayStartBalanceUsd = obs'[p].liveCashBalance
                   /\ is.liveNotionalUsd = 0
                   /\ is.liveRuns = 0
                   /\ ~is.alertedNotionalCap
                   /\ ~is.alertedDrawdownCap
              ELSE /\ is.dayKey = was.dayKey
                   /\ is.dayStartBalanceUsd = was.dayStartBalanceUsd
       /\ StateWritten(p) /\ ~NewUtcDay(Persisted.dailyRisk) =>
            /\ Persisted'.dailyRisk.dayKey = Persisted.dailyRisk.dayKey
            /\ Persisted'.dailyRisk.dayStartBalanceUsd = Persisted.dailyRisk.dayStartBalanceUsd]_vars

\* ---- C30
SavedConfig == GetConfig(kvs["redis"])

\* C30: with maxDailyLiveNotionalUsd set, the live notional recorded for the day
\* (the sum of budgetUsedUsd over the day's live runs) never exceeds it.
C30_DailyNotionalWithinCap ==
  SavedConfig.maxDailyLiveNotionalUsd > 0 /\ Persisted.dailyRisk.dayKey = UtcDayKey =>
    Persisted.dailyRisk.liveNotionalUsd <= SavedConfig.maxDailyLiveNotionalUsd

\* ---- C31
\* resetSyncState writes the state it has built from its earlier read
ResetWritten == reset.pc = "write" /\ reset'.pc = "idle"

\* C31: every read-modify-write of the persisted run state (the handler's
\* setState calls, the manual reset) is made by a writer that holds the run lock,
\* and no update is lost: what the writer read is still what is stored when it
\* writes.
C31_StateWritesUnderLock ==
  [][/\ Persisted' # Persisted =>
          \E p \in Procs : StateWritten(p) /\ HoldsLock(p)
     /\ \A p \in Procs : StateWritten(p) => run[p].cur = Persisted
     /\ ResetWritten => reset.cur = Persisted]_vars

\* ---- C36
\* The signal step just taken admitted its signal
Admitted(p) == SignalStep(p) /\ run'[p].eligible = run[p].eligible + 1

\* C36: when a signal is admitted its latestTimestamp is above the watermark as
\* it stands then, advances made by earlier signals of the same run included, and
\* its key is not in the processed-key set.
C36_AdmittedAboveWatermark ==
  [][\A p \in Procs :
       Admitted(p) =>
         /\ CurrentSignal(p).ts > run[p].lastTs
         /\ SignalKey(CurrentSignal(p)) \notin run[p].copiedSet]_vars

\* ---- C40
\* C40: every admitted signal ends in exactly one outcome that adds one to
\* copied or one to failed, never both, so a run always has eligibleSignals =
\* copied + failed; in paper mode copied = paper = eligibleSignals and failed = 0.
C40_AdmittedSignalsAccounted ==
  /\ [](\A p \in Procs :
          InStrategy(p) =>
            /\ run[p].eligible = run[p].copied + run[p].failed
            /\ PaperMode(run[p].cfg.mode) =>
                 run[p].copied = run[p].paper /\ run[p].failed = 0)
  /\ [][\A p \in Procs :
          Admitted(p) =>
            \/ run'[p].copied = run[p].copied + 1 /\ run'[p].failed = run[p].failed
            \/ run'[p].copied = run[p].copied /\ run'[p].failed = run[p].failed + 1]_vars

\* A live run has ended with one pair filled and one failed
C40_Witness ==
  \E p \in Procs :
    /\ pc[p] = "finish"
    /\ Live(p)
    /\ run[p].eligible = 2
    /\ run[p].copied = 1
    /\ run[p].failed = 1

\* ---- C35
\* The strategy of a live run has returned with the breaker tripped, and the
\* handler takes its next step
TrippedRunGoesOn(p) == pc[p] = "finish" /\ pc'[p] # "finish" /\ TripAlertSent(run[p])

\* C35: alert delivery is fire-and-forget with respect to state: a slow, failing
\* or never-returning alert sink never prevents the latch or the daily risk state
\* decided in a run from being persisted. A run that has tripped the breaker goes
\* on to write its latch whatever becomes of the alert call.
C35_AlertNeverBlocksPersistence ==
  [][\A p \in Procs :
       TrippedRunGoesOn(p) =>
         /\ pc'[p] = "setRead"
         /\ run'[p].patchKind = "final"
         /\ run'[p].patch.safetyLatch.active
         /\ run'[p].patch.safetyLatch.unresolvedAssets = run[p].exposure]_vars

\* C34: in live mode, when the balance is below 1 USD, or below a configured
\* stop-loss floor, or the run budget cap is below 2 USD, the run returns an error
\* before it fetches signals, submits no order, and the state it then writes carries
\* the watermark and the processed keys it loaded.
BelowStopLoss(cfg, bal) == cfg.stopLossBalance > 0 /\ bal < cfg.stopLossBalance
LivePreconditionFails(cfg, bal) ==
  /\ cfg.mode = "live"
  /\ bal < Usd(1) \/ BelowStopLoss(cfg, bal) \/ RunBudgetCapUsd(bal, cfg) < Usd(2)
BalanceKnown(p) == pc[p] = "strategy" /\ pc'[p] \in {"loop", "finish"}
ErroredRunGoesOn(p) == pc[p] = "finish" /\ run[p].errored /\ pc'[p] = "setRead"
C34_LivePreconditionsRefuse ==
  [][\A p \in Procs :
       /\ BalanceKnown(p) /\ LivePreconditionFails(run[p].cfg, run'[p].cashBalance) =>
            /\ pc'[p] = "finish" /\ run'[p].errored
            /\ run'[p].signals = <<>> /\ run'[p].eligible = 0
            /\ obs'[p].ladder = <<>> /\ ~obs'[p].bought /\ obs'[p].sessions = 0
            /\ run'[p].lastTs = run[p].st.lastTimestamp
            /\ run'[p].copiedSet = run[p].st.copiedKeys
       /\ ErroredRunGoesOn(p) =>
            /\ run'[p].patch.lastTimestamp = run[p].st.lastTimestamp
            /\ run'[p].patch.copiedKeys = run[p].st.copiedKeys]_vars
C34_Witness ==
  \E p \in Procs :
    /\ pc[p] = "finish" /\ run[p].errored /\ run[p].cfg.mode = "live"
    /\ BelowStopLoss(run[p].cfg, run[p].cashBalance)
    /\ run[p].cashBalance >= Usd(1) /\ run[p].cap >= Usd(2)

\* C37: in live mode every buy leg submitted is at least the 1 USD exchange
\* minimum. A signal with a leg below 1 USD is not admitted when flooring is off;
\* when it is on both legs are raised to at least 1 USD, the pair costs legA + legB,
\* and it is not admitted when that exceeds the remaining budget.
MinOrder == Usd(POLYMARKET_MIN_ORDER_USD)
RawLeg(r, sig, price) == (Min(PairChunkUsd(r.cfg), r.remaining) * price) \div PairSum(sig)
LegBelowMin(r, sig) == RawLeg(r, sig, sig.pA) < MinOrder \/ RawLeg(r, sig, sig.pB) < MinOrder
FlooredLegs(r, sig) ==
  <<Max(MinOrder, RawLeg(r, sig, sig.pA)), Max(MinOrder, RawLeg(r, sig, sig.pB))>>
C37_LiveLegsAtLeastMinimum ==
  [][\A p \in Procs : SignalStep(p) /\ Live(p) =>
       LET r == run[p]
           sig == CurrentSignal(p)
           e == Evaluate(r, sig)
           floored == FlooredLegs(r, sig)
       IN
       /\ Admitted(p) =>
            /\ e.legA >= MinOrder /\ e.legB >= MinOrder
            /\ e.legA + e.legB <= r.remaining
            /\ obs'[p].spent \in {obs[p].spent, obs[p].spent + e.legA + e.legB}
       /\ Admitted(p) /\ LegBelowMin(r, sig) =>
            r.cfg.floorToPolymarketMin /\ <<e.legA, e.legB>> = floored
       /\ LegBelowMin(r, sig) /\ ~r.cfg.floorToPolymarketMin => ~Admitted(p)
       /\ LegBelowMin(r, sig) /\ floored[1] + floored[2] > r.remaining => ~Admitted(p)]_vars
C37_Witness ==
  \E p \in Procs :
    /\ pc[p] = "loop" /\ Live(p) /\ run[p].cfg.floorToPolymarketMin
    /\ run[p].copied = 1
    /\ obs[p].spent > PairChunkUsd(run[p].cfg)

\* C39: in every run the number of admitted signals never exceeds the configured
\* pairMaxMarketsPerRun clamped to [1, 20]; once that many are admitted the loop
\* stops: no further signal is evaluated and no further order is submitted.
MarketsCap(p) == Clamp(run[p].cfg.pairMaxMarketsPerRun, 1, 20)
MarketsCapReached(p) == InLoop(p) /\ run[p].eligible >= MarketsCap(p)
C39_AdmittedWithinMarketsCap ==
  /\ [](\A p \in Procs : InStrategy(p) =>
          run[p].eligible <= MarketsCap(p) /\ run[p].copied <= MarketsCap(p))
  /\ [][\A p \in Procs : MarketsCapReached(p) /\ (pc'[p] # pc[p] \/ run'[p] # run[p]) =>
          /\ pc'[p] = "finish"
          /\ run'[p] = run[p]
          /\ obs'[p] = obs[p]
          /\ processedCount' = processedCount]_vars
C39_Witness ==
  \E p \in Procs :
    /\ pc[p] = "finish" /\ Live(p) /\ MarketsCap(p) = 1
    /\ run[p].eligible = 1 /\ run[p].idx = 2 /\ Len(run[p].signals) = 2

\* C32: every signal the builder emits has both outcome prices strictly between 0
\* and 1 USD, two distinct token ids, pairSum = priceA + priceB strictly between 0
\* and 2 USD and edge = 1 USD - pairSum; the executor admits no signal whose pairSum
\* is outside that range.
PriceInRange(price) == price > 0 /\ price < 100
PairSumInRange(sig) == sig.pairSum > 0 /\ sig.pairSum < 200
WellFormed(sig) ==
  /\ PriceInRange(sig.pA) /\ PriceInRange(sig.pB)
  /\ sig.assetA # sig.assetB
  /\ sig.pairSum = sig.pA + sig.pB /\ PairSumInRange(sig)
  /\ sig.edge = 100 - sig.pairSum
C32_SignalsWellFormed ==
  /\ [](\A p \in Procs : \A i \in 1..Len(run[p].signals) : WellFormed(run[p].signals[i]))
  /\ [][\A p \in Procs : Admitted(p) => PairSumInRange(CurrentSignal(p))]_vars
C32_Witness ==
  \E p \in Procs : \E c, d \in Conditions :
    /\ pc[p] = "loop" /\ Len(run[p].signals) = 1 /\ run[p].signals[1].c = d
    /\ obs[p].diagnostics[c] = "missing_valid_token_snapshot"
    /\ obs[p].diagnostics[d] = "signal"

\* C33: the list the builder returns is sorted by edge, highest first, and among
\* signals of equal edge by latestTimestamp, latest first; a run evaluates and
\* executes the signals in that order.
InOrder(a, b) == a.edge > b.edge \/ (a.edge = b.edge /\ a.ts >= b.ts)
C33_SignalsSortedByEdgeThenRecency ==
  /\ [](\A p \in Procs : \A i, j \in 1..Len(run[p].signals) :
          i < j => InOrder(run[p].signals[i], run[p].signals[j]))
  /\ [][\A p \in Procs : SignalStep(p) =>
          run'[p].signals = run[p].signals /\ run'[p].idx = run[p].idx + 1]_vars
C33_Witness ==
  \E p \in Procs :
    /\ pc[p] = "loop" /\ Len(run[p].signals) = 2 /\ run[p].idx = 2
    /\ run[p].signals[1].edge = run[p].signals[2].edge
    /\ run[p].signals[1].ts > run[p].signals[2].ts
    /\ run[p].signals[1].c > run[p].signals[2].c

\* C38: a market looked up less than 60 s ago is not looked up again and its stored
\* answer is used, a failure included; one looked up 60 s ago or earlier, or never,
\* is looked up and the answer stored. A failed lookup rejects that market alone
\* (market_lookup_failed): every other market on the tape is still evaluated.
Built(p) == pc[p] = "strategy" /\ pc'[p] = "loop"
Inspected(p, c) == obs'[p].diagnostics[c] # ""
LookupFailed(p, c) == obs'[p].diagnostics[c] = "market_lookup_failed"
YoungerThanTtl(entry) == entry.age >= 0 /\ entry.age < 1
Emitted(p, c) == \E i \in 1..Len(run'[p].signals) : run'[p].signals[i].c = c
C38_MarketCacheTtl ==
  [][\A p \in Procs : Built(p) => \A c \in Conditions :
       /\ YoungerThanTtl(marketCache[c]) =>
            /\ c \notin obs'[p].lookups
            /\ marketCache'[c] = marketCache[c]
            /\ Inspected(p, c) => (LookupFailed(p, c) <=> marketCache[c].market = "failed")
       /\ ~YoungerThanTtl(marketCache[c]) /\ Inspected(p, c) =>
            /\ c \in obs'[p].lookups
            /\ marketCache'[c].age = 0
            /\ LookupFailed(p, c) <=> marketCache'[c].market = "failed"
       /\ ~Inspected(p, c) => marketCache'[c] = marketCache[c] /\ c \notin obs'[p].lookups
       /\ LookupFailed(p, c) => ~Emitted(p, c)
       /\ obs'[p].diagnostics[c] = "signal" <=> Emitted(p, c)]_vars
C38_Witness ==
  \E p \in Procs : \E c, d \in Conditions :
    /\ pc[p] = "loop"
    /\ marketCache[c] = [age |-> 0, market |-> "failed"]
    /\ c \notin obs[p].lookups
    /\ obs[p].diagnostics[c] = "market_lookup_failed"
    /\ obs[p].diagnostics[d] = "signal" /\ d \in obs[p].lookups

====
